---- MODULE Spec2Model ----
(***************************************************************************)
(* Cycle-time engine of atp-producer-jira: the strategy selector, the      *)
(* simple and the complex strategy with their shared accumulators.         *)
(*                                                                         *)
(* A history is a sequence of entries in the order the provider returned   *)
(* them.  An entry is [created, author, items]; created is <<>> when the   *)
(* vendor string is absent or unparseable and <<h>> for an ISO timestamp   *)
(* at hour h (UTC).  Python's Optional values are <<>> (None) or <<v>>.    *)
(***************************************************************************)
EXTENDS Integers, Sequences, FiniteSets, TLC

VARIABLES
    histories,            \* the change history handed to calculate
    assignee_account_id,  \* the worker filter (NoneStr when absent)
    exclude_statuses,     \* configured exclude_statuses
    is_qa,                \* the strategy's is_qa flag
    strategy,             \* which strategy has run: "none", "simple", "complex"
    result,               \* the CycleTime returned (NoResult before the call)
    issue_keys,           \* the keys handed to calculate_cycle_times
    changelogs,           \* what the client answers for each of them, in turn
    position,             \* the key the loop of calculate_cycle_times is at
    results,              \* the list calculate_cycle_times builds
    request               \* the running call of _make_request_with_retry

batch_vars == <<issue_keys, changelogs, position, results>>

vars == <<histories, assignee_account_id, exclude_statuses, is_qa, strategy, result,
          issue_keys, changelogs, position, results, request>>

----------------------------------------------------------------------------
(* Python values *)

None == <<>>
Some(v) == <<v>>
NoneStr == "<None>"

\* Python truthiness of an Optional[str]
Truthy(s) == s # NoneStr /\ s # ""

\* (x or "").strip().lower() over the status names that occur
LowerTable ==
    ("Backlog" :> "backlog") @@ ("In Development" :> "in development") @@
    ("In Review" :> "in review") @@ ("Acceptance" :> "acceptance") @@
    ("Feedback" :> "feedback") @@ ("Done" :> "done") @@ ("Closed" :> "closed") @@
    ("On Hold" :> "on hold") @@ ("Impediment" :> "impediment") @@
    ("None" :> "none") @@ ("Fixed" :> "fixed") @@ ("Won't Do" :> "won't do") @@
    ("Wont Do" :> "wont do") @@
    ("" :> "")

Lower(s) == IF s \in DOMAIN LowerTable THEN LowerTable[s] ELSE s

SecondsPerHour == 3600

\* (b - a).total_seconds() for instants counted in hours
TotalSeconds(a, b) == (b - a) * SecondsPerHour

----------------------------------------------------------------------------
(* Status vocabulary *)

in_progress_names == {"In Development", "In Review"}
done_names == {"Done"}

in_progress_lower == {Lower(n) : n \in in_progress_names}
done_lower == {Lower(n) : n \in done_names}
ExcludeLower(excl) == {Lower(n) : n \in excl}

non_work_states == {"on hold", "waiting", "paused", "stopped", "cancelled"}

----------------------------------------------------------------------------
(* CycleTime *)

CycleTime(key, ip, done, secs, excl, imp) ==
    [issue_key |-> key, in_progress_at |-> ip, done_at |-> done,
     seconds |-> secs, excluded_seconds |-> excl, impediment_seconds |-> imp]

NoResult == CycleTime("", None, None, None, None, None)

----------------------------------------------------------------------------
(* _parse_jira_datetime: +1 hour on every parsed timestamp *)

JiraOffsetHours == 1

\* _parse_jira_datetime without the one-hour adjustment
ParseWithoutAdjustment(value) ==
    IF value = <<>> THEN None ELSE Some(value[1])

ParseJiraDatetime(value) ==
    IF value = <<>> THEN None ELSE Some(value[1] + JiraOffsetHours)

\* dt.datetime.min, the sort key of an unparseable entry
DateTimeMin == -1

SortKey(h) ==
    LET p == ParseJiraDatetime(h.created) IN IF p = None THEN DateTimeMin ELSE p[1]

\* sorted(histories, key=...): stable, ties keep input order
RECURSIVE InsertSorted(_, _)
InsertSorted(sorted, h) ==
    IF sorted = <<>> THEN <<h>>
    ELSE IF SortKey(sorted[Len(sorted)]) <= SortKey(h) THEN Append(sorted, h)
    ELSE Append(InsertSorted(SubSeq(sorted, 1, Len(sorted) - 1), h), sorted[Len(sorted)])

RECURSIVE SortedHistories(_)
SortedHistories(hs) ==
    IF hs = <<>> THEN <<>>
    ELSE InsertSorted(SortedHistories(SubSeq(hs, 1, Len(hs) - 1)), hs[Len(hs)])

\* The nested loops "for history in hs: parse, skip if unparseable; for item
\* in items": every item with its entry's parsed time, author and index.
RECURSIVE EventsFrom(_, _)
EventsFrom(hs, i) ==
    IF i > Len(hs) THEN <<>>
    ELSE LET h == hs[i]
             created_at == ParseJiraDatetime(h.created)
         IN (IF created_at = None THEN <<>>
             ELSE [k \in 1..Len(h.items) |->
                      [created_at |-> created_at[1], author |-> h.author,
                       index |-> i, item |-> h.items[k]]])
            \o EventsFrom(hs, i + 1)

Events(hs) == EventsFrom(hs, 1)

\* "if created_at < in_progress_at or created_at > done_at: continue"
InWindow(ev, w0, w1) ==
    SelectSeq(ev, LAMBDA e : ~(e.created_at < w0 \/ e.created_at > w1))

----------------------------------------------------------------------------
(* _calculate_excluded_time *)

RECURSIVE ExcludedFold(_, _, _, _, _, _)
ExcludedFold(ev, i, excl, total, current_status, status_start_time) ==
    IF i > Len(ev)
    THEN IF Truthy(current_status) /\ current_status \in excl /\ status_start_time # None
         THEN <<total, status_start_time>>
         ELSE <<total, None>>
    ELSE LET e == ev[i] IN
         IF e.item.field # "status"
         THEN ExcludedFold(ev, i + 1, excl, total, current_status, status_start_time)
         ELSE LET to_string == Lower(e.item.toString)
                  leaving == /\ Truthy(current_status)
                             /\ current_status \in excl
                             /\ status_start_time # None
                             /\ to_string \notin excl
                  add == IF leaving THEN TotalSeconds(status_start_time[1], e.created_at)
                         ELSE 0
              IN ExcludedFold(ev, i + 1, excl, total + add, to_string, Some(e.created_at))

CalculateExcludedTime(hs, excl, in_progress_at, done_at) ==
    LET r == ExcludedFold(InWindow(Events(hs), in_progress_at, done_at), 1, excl,
                          0, NoneStr, None)
    IN IF r[2] # None THEN r[1] + TotalSeconds(r[2][1], done_at) ELSE r[1]

----------------------------------------------------------------------------
(* _calculate_impediment_time *)

RECURSIVE ImpedimentFold(_, _, _, _, _)
ImpedimentFold(ev, i, total, is_impediment, impediment_start_time) ==
    IF i > Len(ev)
    THEN IF is_impediment /\ impediment_start_time # None
         THEN <<total, impediment_start_time>>
         ELSE <<total, None>>
    ELSE LET e == ev[i] IN
         IF e.item.field # "Flagged"
         THEN ImpedimentFold(ev, i + 1, total, is_impediment, impediment_start_time)
         ELSE LET to_string == Lower(e.item.toString)
                  cleared == /\ is_impediment
                             /\ impediment_start_time # None
                             /\ to_string \in {"none", ""}
                  add == IF cleared
                         THEN TotalSeconds(impediment_start_time[1], e.created_at)
                         ELSE 0
                  flagged == to_string = "impediment"
              IN ImpedimentFold(ev, i + 1, total + add,
                                IF flagged THEN TRUE
                                ELSE IF cleared THEN FALSE ELSE is_impediment,
                                IF flagged THEN Some(e.created_at)
                                ELSE IF cleared THEN None ELSE impediment_start_time)

CalculateImpedimentTime(hs, in_progress_at, done_at) ==
    LET r == ImpedimentFold(InWindow(Events(hs), in_progress_at, done_at), 1,
                            0, FALSE, None)
    IN IF r[2] # None THEN r[1] + TotalSeconds(r[2][1], done_at) ELSE r[1]

----------------------------------------------------------------------------
(* _calculate_excluded_impediment_overlap *)

\* the excluded_periods list, as <<start, end>> pairs
RECURSIVE ExcludedPeriodsFold(_, _, _, _, _, _, _)
ExcludedPeriodsFold(ev, i, excl, periods, current_status, status_start_time, done_at) ==
    IF i > Len(ev)
    THEN IF Truthy(current_status) /\ current_status \in excl /\ status_start_time # None
         THEN Append(periods, <<status_start_time[1], done_at>>)
         ELSE periods
    ELSE LET e == ev[i] IN
         IF e.item.field # "status"
         THEN ExcludedPeriodsFold(ev, i + 1, excl, periods, current_status,
                                  status_start_time, done_at)
         ELSE LET to_string == Lower(e.item.toString)
                  leaving == /\ Truthy(current_status)
                             /\ current_status \in excl
                             /\ status_start_time # None
                             /\ to_string \notin excl
              IN ExcludedPeriodsFold(ev, i + 1, excl,
                     IF leaving
                     THEN Append(periods, <<status_start_time[1], e.created_at>>)
                     ELSE periods,
                     to_string, Some(e.created_at), done_at)

\* the impediment_periods list
RECURSIVE ImpedimentPeriodsFold(_, _, _, _, _, _)
ImpedimentPeriodsFold(ev, i, periods, is_impediment, impediment_start_time, done_at) ==
    IF i > Len(ev)
    THEN IF is_impediment /\ impediment_start_time # None
         THEN Append(periods, <<impediment_start_time[1], done_at>>)
         ELSE periods
    ELSE LET e == ev[i] IN
         IF e.item.field # "Flagged"
         THEN ImpedimentPeriodsFold(ev, i + 1, periods, is_impediment,
                                    impediment_start_time, done_at)
         ELSE LET to_string == Lower(e.item.toString)
                  cleared == /\ is_impediment
                             /\ impediment_start_time # None
                             /\ to_string \in {"none", ""}
                  flagged == to_string = "impediment"
              IN ImpedimentPeriodsFold(ev, i + 1,
                     IF cleared
                     THEN Append(periods, <<impediment_start_time[1], e.created_at>>)
                     ELSE periods,
                     IF flagged THEN TRUE ELSE IF cleared THEN FALSE ELSE is_impediment,
                     IF flagged THEN Some(e.created_at)
                     ELSE IF cleared THEN None ELSE impediment_start_time,
                     done_at)

Max2(a, b) == IF a >= b THEN a ELSE b
Min2(a, b) == IF a <= b THEN a ELSE b

PairOverlap(p, q) ==
    LET overlap_start == Max2(p[1], q[1])
        overlap_end == Min2(p[2], q[2])
    IN IF overlap_start < overlap_end THEN TotalSeconds(overlap_start, overlap_end) ELSE 0

RECURSIVE SumOverlap(_, _, _, _)
SumOverlap(ips, eps, i, j) ==
    IF i > Len(ips) THEN 0
    ELSE IF j > Len(eps) THEN SumOverlap(ips, eps, i + 1, 1)
    ELSE PairOverlap(ips[i], eps[j]) + SumOverlap(ips, eps, i, j + 1)

CalculateExcludedImpedimentOverlap(hs, excl, in_progress_at, done_at) ==
    LET ev == InWindow(Events(hs), in_progress_at, done_at)
        impediment_periods == ImpedimentPeriodsFold(ev, 1, <<>>, FALSE, None, done_at)
        excluded_periods == ExcludedPeriodsFold(ev, 1, excl, <<>>, NoneStr, None, done_at)
    IN SumOverlap(impediment_periods, excluded_periods, 1, 1)

\* "total - excluded - impediment + overlap" over one window, as every path
\* of both strategies computes it
WindowCycleTime(hs, excl, key, in_progress_at, done_at) ==
    LET total_seconds == TotalSeconds(in_progress_at, done_at)
        excluded_seconds == CalculateExcludedTime(hs, excl, in_progress_at, done_at)
        impediment_seconds == CalculateImpedimentTime(hs, in_progress_at, done_at)
        overlap_seconds == CalculateExcludedImpedimentOverlap(hs, excl, in_progress_at, done_at)
    IN CycleTime(key, Some(in_progress_at), Some(done_at),
                 Some(total_seconds - excluded_seconds - impediment_seconds + overlap_seconds),
                 Some(excluded_seconds), Some(impediment_seconds))

----------------------------------------------------------------------------
(* _has_reopening (the same code in both strategies) *)

RECURSIVE ReopeningFold(_, _, _)
ReopeningFold(ev, i, previous_status) ==
    IF i > Len(ev) THEN FALSE
    ELSE LET e == ev[i] IN
         IF e.item.field # "status" THEN ReopeningFold(ev, i + 1, previous_status)
         ELSE LET to_status == Lower(e.item.toString) IN
              IF /\ Truthy(previous_status)
                 /\ previous_status \in done_lower
                 /\ to_status \in in_progress_lower
              THEN TRUE
              ELSE ReopeningFold(ev, i + 1, to_status)

HasReopening(hs) == ReopeningFold(Events(SortedHistories(hs)), 1, NoneStr)

----------------------------------------------------------------------------
(* _find_qa_start_time / _find_qa_end_time (the same code in both strategies) *)

\* first loop over the entry's items: the status items
RECURSIVE QAStatusPass(_, _, _, _, _, _, _, _)
QAStatusPass(items, k, created_at, author, w, current_status, current_assignee, qa_assigned_on_in_review) ==
    IF k > Len(items) THEN [found |-> None, current_status |-> current_status]
    ELSE LET it == items[k] IN
         IF it.field # "status"
         THEN QAStatusPass(items, k + 1, created_at, author, w, current_status,
                           current_assignee, qa_assigned_on_in_review)
         ELSE LET from_string == Lower(it.fromString)
                  to_string == Lower(it.toString)
              IN IF from_string = "backlog" /\ author = w
                 THEN [found |-> <<created_at, to_string>>, current_status |-> current_status]
                 ELSE IF /\ from_string = "in review"
                         /\ to_string = "acceptance"
                         /\ \/ current_assignee = w /\ author = w
                            \/ qa_assigned_on_in_review # None /\ author = w
                 THEN [found |-> <<created_at, "acceptance">>, current_status |-> current_status]
                 ELSE IF to_string = "acceptance" /\ current_assignee = w /\ author = w
                 THEN [found |-> <<created_at, "acceptance">>, current_status |-> current_status]
                 ELSE QAStatusPass(items, k + 1, created_at, author, w, to_string,
                                   current_assignee, qa_assigned_on_in_review)

\* the assignee items only tracked: becoming assignee on acceptance is no
\* start
RECURSIVE QAAssigneePassTrackingOnly(_, _, _, _, _, _, _)
QAAssigneePassTrackingOnly(items, k, created_at, w, current_status, current_assignee, qa_assigned_on_in_review) ==
    IF k > Len(items)
    THEN [found |-> None, current_assignee |-> current_assignee,
          qa_assigned_on_in_review |-> qa_assigned_on_in_review]
    ELSE LET it == items[k] IN
         IF it.field # "assignee"
         THEN QAAssigneePassTrackingOnly(items, k + 1, created_at, w, current_status,
                                         current_assignee, qa_assigned_on_in_review)
         ELSE IF it.to = w
         THEN QAAssigneePassTrackingOnly(items, k + 1, created_at, w, current_status, w,
                                         IF current_status = "in review" THEN Some(created_at)
                                         ELSE qa_assigned_on_in_review)
         ELSE IF it.from = w
         THEN QAAssigneePassTrackingOnly(items, k + 1, created_at, w, current_status,
                                         IF it.to # "" THEN it.to ELSE NoneStr, None)
         ELSE QAAssigneePassTrackingOnly(items, k + 1, created_at, w, current_status,
                                         current_assignee, qa_assigned_on_in_review)

\* second loop over the entry's items: the assignee items
RECURSIVE QAAssigneePass(_, _, _, _, _, _, _)
QAAssigneePass(items, k, created_at, w, current_status, current_assignee, qa_assigned_on_in_review) ==
    IF k > Len(items)
    THEN [found |-> None, current_assignee |-> current_assignee,
          qa_assigned_on_in_review |-> qa_assigned_on_in_review]
    ELSE LET it == items[k] IN
         IF it.field # "assignee"
         THEN QAAssigneePass(items, k + 1, created_at, w, current_status,
                             current_assignee, qa_assigned_on_in_review)
         ELSE IF it.to = w
         THEN IF current_status = "acceptance"
              THEN [found |-> <<created_at, "acceptance">>, current_assignee |-> w,
                    qa_assigned_on_in_review |-> qa_assigned_on_in_review]
              ELSE QAAssigneePass(items, k + 1, created_at, w, current_status, w,
                                  IF current_status = "in review" THEN Some(created_at)
                                  ELSE qa_assigned_on_in_review)
         ELSE IF it.from = w
         THEN QAAssigneePass(items, k + 1, created_at, w, current_status,
                             IF it.to # "" THEN it.to ELSE NoneStr, None)
         ELSE QAAssigneePass(items, k + 1, created_at, w, current_status,
                             current_assignee, qa_assigned_on_in_review)

RECURSIVE QAStartFold(_, _, _, _, _, _)
QAStartFold(sorted, i, w, current_status, current_assignee, qa_assigned_on_in_review) ==
    IF i > Len(sorted) THEN None
    ELSE LET h == sorted[i]
             created_at == ParseJiraDatetime(h.created)
         IN IF created_at = None
            THEN QAStartFold(sorted, i + 1, w, current_status, current_assignee,
                             qa_assigned_on_in_review)
            ELSE LET s == QAStatusPass(h.items, 1, created_at[1], h.author, w,
                                       current_status, current_assignee,
                                       qa_assigned_on_in_review)
                 IN IF s.found # None THEN s.found
                    ELSE LET a == QAAssigneePass(h.items, 1, created_at[1], w,
                                                 s.current_status, current_assignee,
                                                 qa_assigned_on_in_review)
                         IN IF a.found # None THEN a.found
                            ELSE QAStartFold(sorted, i + 1, w, s.current_status,
                                             a.current_assignee, a.qa_assigned_on_in_review)

\* <<>> or <<start time, start status>>
FindQAStartTime(hs, qa, w) ==
    IF ~qa \/ ~Truthy(w) THEN None
    ELSE QAStartFold(SortedHistories(hs), 1, w, NoneStr, NoneStr, None)

RECURSIVE QAEndFold(_, _, _, _)
QAEndFold(ev, i, qa_start, start_status_lower) ==
    IF i > Len(ev) THEN None
    ELSE LET e == ev[i] IN
         IF /\ e.created_at > qa_start
            /\ e.item.field = "status"
            /\ Lower(e.item.fromString) = start_status_lower
            /\ Lower(e.item.toString) # start_status_lower
         THEN Some(e.created_at)
         ELSE QAEndFold(ev, i + 1, qa_start, start_status_lower)

\* _find_qa_end_time stopping at the first status change after the start,
\* whichever status it leaves
FindQAEndTimeAnyChange(hs, qa_start, start_status) ==
    LET ev == Events(SortedHistories(hs))
        S == {k \in 1..Len(ev) : ev[k].created_at > qa_start /\ ev[k].item.field = "status"}
    IN IF S = {} THEN None ELSE Some(ev[CHOOSE k \in S : \A j \in S : k <= j].created_at)

FindQAEndTime(hs, qa_start, start_status) ==
    QAEndFold(Events(SortedHistories(hs)), 1, qa_start, Lower(start_status))

\* _calculate_with_qa_start (the same code in both strategies)
CalculateWithQAStart(hs, excl, key, qa_start, start_status) ==
    LET done_at == FindQAEndTime(hs, qa_start, start_status) IN
    IF done_at = None
    THEN CycleTime(key, Some(qa_start), None, None, None, None)
    ELSE WindowCycleTime(hs, excl, key, qa_start, done_at[1])

----------------------------------------------------------------------------
(* The multi-cycle sum (the same loop in both strategies' _calculate_with_cycles) *)

\* cycles are <<start, end>> with end an Optional
RECURSIVE CyclesFold(_, _, _, _, _)
CyclesFold(hs, excl, cycles, i, acc) ==
    IF i > Len(cycles) THEN acc
    ELSE LET cycle_start == cycles[i][1]
             cycle_end == cycles[i][2]
             first == IF acc.first_in_progress = None \/ cycle_start < acc.first_in_progress[1]
                      THEN Some(cycle_start) ELSE acc.first_in_progress
         IN IF cycle_end = None
            THEN CyclesFold(hs, excl, cycles, i + 1, [acc EXCEPT !.first_in_progress = first])
            ELSE LET cycle_seconds == TotalSeconds(cycle_start, cycle_end[1])
                     excluded_seconds == CalculateExcludedTime(hs, excl, cycle_start, cycle_end[1])
                     impediment_seconds == CalculateImpedimentTime(hs, cycle_start, cycle_end[1])
                     cycle_overlap == CalculateExcludedImpedimentOverlap(hs, excl, cycle_start,
                                                                         cycle_end[1])
                 IN CyclesFold(hs, excl, cycles, i + 1,
                      [first_in_progress |-> first,
                       last_done |-> IF acc.last_done = None \/ cycle_end[1] > acc.last_done[1]
                                     THEN cycle_end ELSE acc.last_done,
                       total_seconds |-> acc.total_seconds + (cycle_seconds - excluded_seconds
                                             - impediment_seconds + cycle_overlap),
                       total_excluded_seconds |-> acc.total_excluded_seconds + excluded_seconds,
                       total_impediment_seconds |-> acc.total_impediment_seconds
                                                    + impediment_seconds])

\* _calculate_with_cycles stopping at the first cycle: first start to first closure
CycleTimeOfFirstCycle(hs, excl, key, cycles) ==
    IF cycles = <<>> THEN CycleTime(key, None, None, None, None, None)
    ELSE LET acc == CyclesFold(hs, excl, <<cycles[1]>>, 1,
                       [first_in_progress |-> None, last_done |-> None, total_seconds |-> 0,
                        total_excluded_seconds |-> 0, total_impediment_seconds |-> 0])
         IN IF acc.last_done = None
            THEN CycleTime(key, acc.first_in_progress, None, None, None, None)
            ELSE CycleTime(key, acc.first_in_progress, acc.last_done, Some(acc.total_seconds),
                           Some(acc.total_excluded_seconds), Some(acc.total_impediment_seconds))

CycleTimeOfCycles(hs, excl, key, cycles) ==
    IF cycles = <<>> THEN CycleTime(key, None, None, None, None, None)
    ELSE LET acc == CyclesFold(hs, excl, cycles, 1,
                       [first_in_progress |-> None, last_done |-> None, total_seconds |-> 0,
                        total_excluded_seconds |-> 0, total_impediment_seconds |-> 0])
         IN IF acc.last_done = None
            THEN CycleTime(key, acc.first_in_progress, None, None, None, None)
            ELSE CycleTime(key, acc.first_in_progress, acc.last_done, Some(acc.total_seconds),
                           Some(acc.total_excluded_seconds), Some(acc.total_impediment_seconds))

----------------------------------------------------------------------------
(* SimpleCycleTimeStrategy *)

SetMin(S) == CHOOSE x \in S : \A y \in S : x <= y

RECURSIVE SimpleCyclesFold(_, _, _, _)
SimpleCyclesFold(ev, i, cycles, current_cycle_start) ==
    IF i > Len(ev)
    THEN IF current_cycle_start # None
         THEN Append(cycles, <<current_cycle_start[1], None>>)
         ELSE cycles
    ELSE LET e == ev[i] IN
         IF e.item.field # "status"
         THEN SimpleCyclesFold(ev, i + 1, cycles, current_cycle_start)
         ELSE LET to_string == Lower(e.item.toString) IN
              IF to_string \in in_progress_lower /\ current_cycle_start = None
              THEN SimpleCyclesFold(ev, i + 1, cycles, Some(e.created_at))
              ELSE IF to_string \in done_lower /\ current_cycle_start # None
              THEN SimpleCyclesFold(ev, i + 1,
                       Append(cycles, <<current_cycle_start[1], Some(e.created_at)>>), None)
              ELSE SimpleCyclesFold(ev, i + 1, cycles, current_cycle_start)

SimpleFindAllCycles(hs) == SimpleCyclesFold(Events(SortedHistories(hs)), 1, <<>>, None)

SimpleCalculateWithCycles(hs, excl, key) ==
    CycleTimeOfCycles(hs, excl, key, SimpleFindAllCycles(hs))

\* _find_first_in_progress taking the latest transition instead of the earliest
SimpleFindLastInProgress(hs) ==
    LET ev == Events(hs)
        times == {ev[i].created_at : i \in {j \in 1..Len(ev) :
                      /\ ev[j].item.field = "status"
                      /\ Lower(ev[j].item.toString) \in in_progress_lower}}
    IN IF times = {} THEN None ELSE Some(CHOOSE t \in times : \A u \in times : u <= t)

SimpleFindFirstInProgress(hs) ==
    LET ev == Events(hs)
        times == {ev[i].created_at : i \in {j \in 1..Len(ev) :
                      /\ ev[j].item.field = "status"
                      /\ Lower(ev[j].item.toString) \in in_progress_lower}}
    IN IF times = {} THEN None ELSE Some(SetMin(times))

\* _find_first_done accepting a done transition at the start itself
SimpleFindFirstDoneNotBefore(hs, in_progress_at) ==
    LET ev == Events(hs)
        times == {ev[i].created_at : i \in {j \in 1..Len(ev) :
                      /\ ev[j].created_at >= in_progress_at
                      /\ ev[j].item.field = "status"
                      /\ Lower(ev[j].item.toString) \in done_lower}}
    IN IF times = {} THEN None ELSE Some(SetMin(times))

SimpleFindFirstDone(hs, in_progress_at) ==
    LET ev == Events(hs)
        times == {ev[i].created_at : i \in {j \in 1..Len(ev) :
                      /\ ev[j].created_at > in_progress_at
                      /\ ev[j].item.field = "status"
                      /\ Lower(ev[j].item.toString) \in done_lower}}
    IN IF times = {} THEN None ELSE Some(SetMin(times))

SimpleCalculateFirstToLast(hs, excl, key) ==
    LET in_progress_at == SimpleFindFirstInProgress(hs) IN
    IF in_progress_at = None THEN CycleTime(key, None, None, None, None, None)
    ELSE LET done_at == SimpleFindFirstDone(hs, in_progress_at[1]) IN
         IF done_at = None THEN CycleTime(key, in_progress_at, None, None, None, None)
         ELSE WindowCycleTime(hs, excl, key, in_progress_at[1], done_at[1])

SimpleCalculate(hs, excl, qa, key, w) ==
    LET qa_start_result == IF qa /\ Truthy(w) THEN FindQAStartTime(hs, qa, w) ELSE None IN
    IF qa_start_result # None
    THEN CalculateWithQAStart(hs, excl, key, qa_start_result[1], qa_start_result[2])
    ELSE IF HasReopening(hs) THEN SimpleCalculateWithCycles(hs, excl, key)
    ELSE SimpleCalculateFirstToLast(hs, excl, key)

----------------------------------------------------------------------------
(* ComplexCycleTimeStrategy: assignment intervals *)

\* assignee periods are <<start, end>> with end an Optional; the Optional
\* list of periods is None (no filter) or Some(list)
RECURSIVE AssigneePeriodsFold(_, _, _, _, _, _)
AssigneePeriodsFold(ev, i, w, periods, current_assignee, assignment_start) ==
    IF i > Len(ev)
    THEN IF current_assignee = w /\ assignment_start # None
         THEN Append(periods, <<assignment_start[1], None>>)
         ELSE periods
    ELSE LET e == ev[i] IN
         IF e.item.field # "assignee"
         THEN AssigneePeriodsFold(ev, i + 1, w, periods, current_assignee, assignment_start)
         ELSE LET to_id == e.item.to IN
              IF current_assignee = w /\ to_id # w
              THEN AssigneePeriodsFold(ev, i + 1, w,
                       IF assignment_start # None
                       THEN Append(periods, <<assignment_start[1], Some(e.created_at)>>)
                       ELSE periods,
                       IF to_id # "" THEN to_id ELSE NoneStr, None)
              ELSE IF to_id = w
              THEN AssigneePeriodsFold(ev, i + 1, w, periods, w, Some(e.created_at))
              ELSE AssigneePeriodsFold(ev, i + 1, w, periods, current_assignee,
                                       assignment_start)

GetAssigneePeriods(hs, w) ==
    AssigneePeriodsFold(Events(SortedHistories(hs)), 1, w, <<>>, NoneStr, None)

HoursPerDay == 24
GraceHours == 4

DateOf(t) == t \div HoursPerDay

\* one iteration with a grace period of four hours that runs past midnight
InPeriodPastMidnight(timestamp, p) ==
    IF p[2] = None THEN timestamp >= p[1]
    ELSE \/ p[1] <= timestamp /\ timestamp <= p[2][1]
         \/ /\ timestamp > p[2][1]
            /\ timestamp - p[2][1] <= GraceHours

\* one iteration of the loop of _is_in_assignee_period
InPeriod(timestamp, p) ==
    IF p[2] = None THEN timestamp >= p[1]
    ELSE \/ p[1] <= timestamp /\ timestamp <= p[2][1]
         \/ /\ DateOf(timestamp) = DateOf(p[2][1])
            /\ timestamp > p[2][1]
            /\ timestamp - p[2][1] <= GraceHours

IsInAssigneePeriod(timestamp, assignee_periods) ==
    IF assignee_periods = None THEN TRUE
    ELSE \E k \in 1..Len(assignee_periods[1]) : InPeriod(timestamp, assignee_periods[1][k])

\* Python truthiness of the Optional list
HasPeriods(assignee_periods) == assignee_periods # None /\ assignee_periods[1] # <<>>

FirstPeriodStart(assignee_periods) ==
    SetMin({assignee_periods[1][k][1] : k \in 1..Len(assignee_periods[1])})

----------------------------------------------------------------------------
(* ComplexCycleTimeStrategy: the start of work *)

\* _check_leads_to_non_work: scan the entries after start_index in list order
RECURSIVE LeadsFold(_, _, _)
LeadsFold(ev, k, start_index) ==
    IF k > Len(ev) THEN FALSE
    ELSE LET e == ev[k] IN
         IF e.index <= start_index \/ e.item.field # "status"
         THEN LeadsFold(ev, k + 1, start_index)
         ELSE LET to_string == Lower(e.item.toString) IN
              IF to_string \in non_work_states THEN TRUE
              ELSE IF to_string \in in_progress_lower THEN FALSE
              ELSE LeadsFold(ev, k + 1, start_index)

CheckLeadsToNonWork(hs, start_index) == LeadsFold(Events(hs), 1, start_index)

\* _get_status_at_time
RECURSIVE StatusAtFold(_, _, _, _)
StatusAtFold(ev, i, timestamp, current_status) ==
    IF i > Len(ev) THEN current_status
    ELSE LET e == ev[i] IN
         IF e.created_at > timestamp THEN current_status
         ELSE StatusAtFold(ev, i + 1, timestamp,
                           IF e.item.field = "status" THEN Lower(e.item.toString)
                           ELSE current_status)

GetStatusAtTime(hs, timestamp) ==
    StatusAtFold(Events(SortedHistories(hs)), 1, timestamp, NoneStr)

\* _get_first_assignment_in_progress
RECURSIVE FirstAssignmentFold(_, _, _, _, _)
FirstAssignmentFold(ev, i, first_assignment_time, current_status, previous_assignee) ==
    IF i > Len(ev) THEN <<current_status, previous_assignee>>
    ELSE LET e == ev[i] IN
         IF e.created_at > first_assignment_time THEN <<current_status, previous_assignee>>
         ELSE IF e.item.field = "status"
         THEN FirstAssignmentFold(ev, i + 1, first_assignment_time,
                                  Lower(e.item.toString), previous_assignee)
         ELSE IF e.item.field = "assignee" /\ e.created_at < first_assignment_time
         THEN FirstAssignmentFold(ev, i + 1, first_assignment_time, current_status,
                                  IF e.item.to # "" THEN e.item.to ELSE NoneStr)
         ELSE FirstAssignmentFold(ev, i + 1, first_assignment_time, current_status,
                                  previous_assignee)

\* _get_first_assignment_in_progress never recognising a hand-off
FirstAssignmentNoHandOff(hs, assignee_periods) == None

\* _get_first_assignment_in_progress without the previous-assignee condition
FirstAssignmentAnyPrevious(hs, assignee_periods) ==
    IF ~HasPeriods(assignee_periods) THEN None
    ELSE LET first_assignment_time == FirstPeriodStart(assignee_periods)
             r == FirstAssignmentFold(Events(SortedHistories(hs)), 1, first_assignment_time,
                                      NoneStr, NoneStr)
         IN IF Truthy(r[1]) /\ r[1] \in in_progress_lower
            THEN Some(first_assignment_time)
            ELSE None

GetFirstAssignmentInProgress(hs, assignee_periods) ==
    IF ~HasPeriods(assignee_periods) THEN None
    ELSE LET first_assignment_time == FirstPeriodStart(assignee_periods)
             r == FirstAssignmentFold(Events(SortedHistories(hs)), 1, first_assignment_time,
                                      NoneStr, NoneStr)
         IN IF Truthy(r[1]) /\ r[1] \in in_progress_lower /\ Truthy(r[2])
            THEN Some(first_assignment_time)
            ELSE None

\* the work_transitions list: indices into Events(hs)
WorkTransitions(hs) ==
    LET ev == Events(hs) IN
    {k \in 1..Len(ev) : /\ ev[k].item.field = "status"
                        /\ Lower(ev[k].item.toString) \in in_progress_lower
                        /\ Lower(ev[k].item.toString) \notin non_work_states}

ValidTransitions(hs) ==
    LET ev == Events(hs)
        work == WorkTransitions(hs)
        valid == {k \in work : ~CheckLeadsToNonWork(hs, ev[k].index)}
    IN IF valid = {} THEN work ELSE valid

\* _find_first_in_progress taking the global start whatever the periods are
FindFirstInProgressUnconfined(hs, assignee_periods) ==
    LET ev == Events(hs)
        valid_transitions == ValidTransitions(hs)
    IN IF valid_transitions = {} THEN None
       ELSE Some(SetMin({ev[k].created_at : k \in valid_transitions}))

ComplexFindFirstInProgress(hs, assignee_periods) ==
    LET ev == Events(hs)
        valid_transitions == ValidTransitions(hs)
    IN IF valid_transitions = {}
       THEN (IF HasPeriods(assignee_periods)
             THEN GetFirstAssignmentInProgress(hs, assignee_periods)
             ELSE None)
       ELSE LET first_in_progress == SetMin({ev[k].created_at : k \in valid_transitions}) IN
            IF ~HasPeriods(assignee_periods) THEN Some(first_in_progress)
            ELSE IF IsInAssigneePeriod(first_in_progress, assignee_periods)
            THEN Some(first_in_progress)
            ELSE LET first_assignment == GetFirstAssignmentInProgress(hs, assignee_periods) IN
                 IF first_assignment # None THEN first_assignment
                 ELSE LET current_status ==
                              GetStatusAtTime(hs, FirstPeriodStart(assignee_periods))
                      IN IF Truthy(current_status) /\ current_status \in in_progress_lower
                         THEN Some(first_in_progress)
                         ELSE LET inside == {ev[k].created_at : k \in {j \in valid_transitions :
                                                IsInAssigneePeriod(ev[j].created_at,
                                                                   assignee_periods)}}
                              IN IF inside = {} THEN None ELSE Some(SetMin(inside))

----------------------------------------------------------------------------
(* ComplexCycleTimeStrategy: the completion *)

\* _check_status_completion, per entry
CheckStatusCompletion(h) ==
    \E k \in 1..Len(h.items) : /\ h.items[k].field = "status"
                               /\ Lower(h.items[k].toString) \in done_lower

\* _check_resolution_completion, per entry
\* _check_resolution_completion counting a "Won't Do" whoever set it
CheckResolutionCompletionAnyAuthor(h, w) ==
    \E k \in 1..Len(h.items) :
        /\ h.items[k].field = "resolution"
        /\ Truthy(h.items[k].toString) /\ Lower(h.items[k].toString) # "none"

CheckResolutionCompletion(h, w) ==
    \E k \in 1..Len(h.items) :
        /\ h.items[k].field = "resolution"
        /\ LET to_string == h.items[k].toString IN
           IF Lower(to_string) \in {"won't do", "wont do"}
           THEN IF Truthy(w) THEN h.author = w ELSE TRUE
           ELSE Truthy(to_string) /\ Lower(to_string) # "none"

\* _find_first_completion without the "after in_progress_at" condition
FindFirstCompletionAnyTime(hs, in_progress_at, w, assignee_periods) ==
    LET candidates == {i \in 1..Len(hs) :
            LET created_at == ParseJiraDatetime(hs[i].created) IN
            /\ created_at # None
            /\ IsInAssigneePeriod(created_at[1], assignee_periods)}
        status_completions == {ParseJiraDatetime(hs[i].created)[1] :
                                  i \in {j \in candidates : CheckStatusCompletion(hs[j])}}
        resolution_completions == {ParseJiraDatetime(hs[i].created)[1] :
                                  i \in {j \in candidates : CheckResolutionCompletion(hs[j], w)}}
    IN IF status_completions # {} THEN Some(SetMin(status_completions))
       ELSE IF resolution_completions # {} THEN Some(SetMin(resolution_completions))
       ELSE None

\* _find_first_completion taking the earliest completion, by status or by
\* resolution
FindFirstCompletionOfEither(hs, in_progress_at, w, assignee_periods) ==
    LET candidates == {i \in 1..Len(hs) :
            LET created_at == ParseJiraDatetime(hs[i].created) IN
            /\ created_at # None
            /\ created_at[1] > in_progress_at
            /\ IsInAssigneePeriod(created_at[1], assignee_periods)}
        completions == {ParseJiraDatetime(hs[i].created)[1] :
                           i \in {j \in candidates : \/ CheckStatusCompletion(hs[j])
                                                     \/ CheckResolutionCompletion(hs[j], w)}}
    IN IF completions # {} THEN Some(SetMin(completions)) ELSE None

ComplexFindFirstCompletion(hs, in_progress_at, w, assignee_periods) ==
    LET candidates == {i \in 1..Len(hs) :
            LET created_at == ParseJiraDatetime(hs[i].created) IN
            /\ created_at # None
            /\ created_at[1] > in_progress_at
            /\ IsInAssigneePeriod(created_at[1], assignee_periods)}
        status_completions == {ParseJiraDatetime(hs[i].created)[1] :
                                  i \in {j \in candidates : CheckStatusCompletion(hs[j])}}
        resolution_completions == {ParseJiraDatetime(hs[i].created)[1] :
                                  i \in {j \in candidates : CheckResolutionCompletion(hs[j], w)}}
    IN IF status_completions # {} THEN Some(SetMin(status_completions))
       ELSE IF resolution_completions # {} THEN Some(SetMin(resolution_completions))
       ELSE None

\* _calculate_first_to_last without the early return on a missing start: the
\* completion is looked for anyway
ComplexFirstToLastWithoutStart(hs, excl, key, w, assignee_periods) ==
    LET in_progress_at == ComplexFindFirstInProgress(hs, assignee_periods) IN
    IF in_progress_at = None
    THEN CycleTime(key, None, ComplexFindFirstCompletion(hs, DateTimeMin, w, assignee_periods),
                   None, None, None)
    ELSE LET done_at == ComplexFindFirstCompletion(hs, in_progress_at[1], w, assignee_periods) IN
         IF done_at = None THEN CycleTime(key, in_progress_at, None, None, None, None)
         ELSE WindowCycleTime(hs, excl, key, in_progress_at[1], done_at[1])

ComplexCalculateFirstToLast(hs, excl, key, w, assignee_periods) ==
    LET in_progress_at == ComplexFindFirstInProgress(hs, assignee_periods) IN
    IF in_progress_at = None THEN CycleTime(key, None, None, None, None, None)
    ELSE LET done_at == ComplexFindFirstCompletion(hs, in_progress_at[1], w, assignee_periods) IN
         IF done_at = None THEN CycleTime(key, in_progress_at, None, None, None, None)
         ELSE WindowCycleTime(hs, excl, key, in_progress_at[1], done_at[1])

----------------------------------------------------------------------------
(* ComplexCycleTimeStrategy: cycles and calculate *)

RECURSIVE ComplexCyclesFold(_, _, _, _, _)
ComplexCyclesFold(ev, i, assignee_periods, cycles, current_cycle_start) ==
    IF i > Len(ev)
    THEN IF current_cycle_start # None
         THEN Append(cycles, <<current_cycle_start[1], None>>)
         ELSE cycles
    ELSE LET e == ev[i] IN
         IF e.item.field # "status"
         THEN ComplexCyclesFold(ev, i + 1, assignee_periods, cycles, current_cycle_start)
         ELSE LET to_string == Lower(e.item.toString) IN
              IF to_string \in in_progress_lower /\ current_cycle_start = None
              THEN ComplexCyclesFold(ev, i + 1, assignee_periods, cycles,
                       IF IsInAssigneePeriod(e.created_at, assignee_periods)
                       THEN Some(e.created_at) ELSE current_cycle_start)
              ELSE IF /\ to_string \in done_lower
                      /\ current_cycle_start # None
                      /\ IsInAssigneePeriod(e.created_at, assignee_periods)
              THEN ComplexCyclesFold(ev, i + 1, assignee_periods,
                       Append(cycles, <<current_cycle_start[1], Some(e.created_at)>>), None)
              ELSE ComplexCyclesFold(ev, i + 1, assignee_periods, cycles, current_cycle_start)

\* a cycle finder in which a transition into in-progress met while a cycle
\* is open puts the open cycle on the list and opens another
RECURSIVE RestartingCyclesFold(_, _, _, _, _)
RestartingCyclesFold(ev, i, assignee_periods, cycles, current_cycle_start) ==
    IF i > Len(ev)
    THEN IF current_cycle_start # None
         THEN Append(cycles, <<current_cycle_start[1], None>>)
         ELSE cycles
    ELSE LET e == ev[i] IN
         IF e.item.field # "status"
         THEN RestartingCyclesFold(ev, i + 1, assignee_periods, cycles, current_cycle_start)
         ELSE LET to_string == Lower(e.item.toString) IN
              IF to_string \in in_progress_lower
              THEN IF IsInAssigneePeriod(e.created_at, assignee_periods)
                   THEN RestartingCyclesFold(ev, i + 1, assignee_periods,
                            IF current_cycle_start # None
                            THEN Append(cycles, <<current_cycle_start[1], None>>)
                            ELSE cycles,
                            Some(e.created_at))
                   ELSE RestartingCyclesFold(ev, i + 1, assignee_periods, cycles,
                                             current_cycle_start)
              ELSE IF /\ to_string \in done_lower
                      /\ current_cycle_start # None
                      /\ IsInAssigneePeriod(e.created_at, assignee_periods)
              THEN RestartingCyclesFold(ev, i + 1, assignee_periods,
                       Append(cycles, <<current_cycle_start[1], Some(e.created_at)>>), None)
              ELSE RestartingCyclesFold(ev, i + 1, assignee_periods, cycles,
                                        current_cycle_start)

ComplexFindAllCyclesRestarting(hs, assignee_periods) ==
    RestartingCyclesFold(Events(SortedHistories(hs)), 1, assignee_periods, <<>>, None)

\* a cycle finder that takes every transition, inside the worker's periods
\* or not
ComplexFindAllCyclesUnfiltered(hs, assignee_periods) ==
    ComplexCyclesFold(Events(SortedHistories(hs)), 1, None, <<>>, None)

ComplexFindAllCycles(hs, assignee_periods) ==
    ComplexCyclesFold(Events(SortedHistories(hs)), 1, assignee_periods, <<>>, None)

ComplexCalculateWithCycles(hs, excl, key, assignee_periods) ==
    CycleTimeOfCycles(hs, excl, key, ComplexFindAllCycles(hs, assignee_periods))

\* _is_author_of_transitions looking at the transitions into in-progress only
IsAuthorOfStartTransitions(hs, w) ==
    \E i \in 1..Len(hs) :
        /\ hs[i].author = w
        /\ \E k \in 1..Len(hs[i].items) :
              /\ hs[i].items[k].field = "status"
              /\ Lower(hs[i].items[k].toString) \in in_progress_lower

\* _is_author_of_transitions: every entry, parseable or not
IsAuthorOfTransitions(hs, w) ==
    \E i \in 1..Len(hs) :
        /\ hs[i].author = w
        /\ \E k \in 1..Len(hs[i].items) :
              /\ hs[i].items[k].field = "status"
              /\ Lower(hs[i].items[k].toString) \in (in_progress_lower \cup done_lower)

\* calculate going on without a filter when the worker was never involved
WorkerPeriodsAlwaysInvolved(hs, w) ==
    IF ~Truthy(w) THEN <<TRUE, None>>
    ELSE LET assignee_periods == GetAssigneePeriods(hs, w) IN
         IF assignee_periods # <<>> THEN <<TRUE, Some(assignee_periods)>>
         ELSE <<TRUE, None>>

\* the assignee_periods calculate works with: <<involved, Optional list>>
WorkerPeriods(hs, w) ==
    IF ~Truthy(w) THEN <<TRUE, None>>
    ELSE LET assignee_periods == GetAssigneePeriods(hs, w) IN
         IF assignee_periods # <<>> THEN <<TRUE, Some(assignee_periods)>>
         ELSE IF IsAuthorOfTransitions(hs, w) THEN <<TRUE, None>>
         ELSE <<FALSE, None>>

ComplexCalculate(hs, excl, qa, key, w) ==
    LET qa_start_result == IF qa /\ Truthy(w) THEN FindQAStartTime(hs, qa, w) ELSE None IN
    IF qa_start_result # None
    THEN CalculateWithQAStart(hs, excl, key, qa_start_result[1], qa_start_result[2])
    ELSE LET wp == WorkerPeriods(hs, w) IN
         IF ~wp[1] THEN CycleTime(key, None, None, None, None, None)
         ELSE IF HasReopening(hs) THEN ComplexCalculateWithCycles(hs, excl, key, wp[2])
         ELSE ComplexCalculateFirstToLast(hs, excl, key, w, wp[2])

----------------------------------------------------------------------------
(* Strategy selector and facade *)

RECURSIVE CountFieldFrom(_, _, _)
CountFieldFrom(hs, f, i) ==
    IF i > Len(hs) THEN 0
    ELSE Len(SelectSeq(hs[i].items, LAMBDA it : it.field = f)) + CountFieldFrom(hs, f, i + 1)

CountField(hs, f) == CountFieldFrom(hs, f, 1)

AssigneeThreshold == 2
StatusThreshold == 5

\* should_use_complex_strategy with the status threshold reached, not exceeded
ShouldUseComplexAtThreshold(hs, w) ==
    \/ CountField(hs, "assignee") > AssigneeThreshold
    \/ CountField(hs, "status") >= StatusThreshold
    \/ w # NoneStr

ShouldUseComplexStrategy(hs, w) ==
    \/ CountField(hs, "assignee") > AssigneeThreshold
    \/ CountField(hs, "status") > StatusThreshold
    \/ w # NoneStr

SelectStrategy(hs, w) == IF ShouldUseComplexStrategy(hs, w) THEN "complex" ELSE "simple"

\* the reasons list of get_strategy_info before its default is applied; the
\* filter is tested for truth (None and "" both fail), not against None
StrategyReasons(assignee_changes, status_changes, w) ==
    (IF w # NoneStr /\ w # "" THEN <<"assignee filter provided">> ELSE <<>>)
    \o (IF assignee_changes > AssigneeThreshold
        THEN <<"multiple assignee changes (" \o ToString(assignee_changes) \o ")">>
        ELSE <<>>)
    \o (IF status_changes > StatusThreshold
        THEN <<"many status changes (" \o ToString(status_changes) \o ")">>
        ELSE <<>>)

\* CycleTimeCalculator.get_strategy_info
GetStrategyInfo(hs, w) ==
    LET assignee_changes == CountField(hs, "assignee")
        status_changes == CountField(hs, "status")
        reasons == StrategyReasons(assignee_changes, status_changes, w)
    IN [strategy |-> IF ShouldUseComplexStrategy(hs, w)
                     THEN "ComplexCycleTimeStrategy" ELSE "SimpleCycleTimeStrategy",
        assignee_changes |-> assignee_changes,
        status_changes |-> status_changes,
        has_assignee_filter |-> w # NoneStr,
        reasons |-> IF reasons # <<>> THEN reasons ELSE <<"simple linear process">>]

----------------------------------------------------------------------------
(* Inputs *)

StatusItem(from_string, to_string) ==
    [field |-> "status", fromString |-> from_string, toString |-> to_string,
     from |-> "", to |-> ""]
AssigneeItem(from_id, to_id) ==
    [field |-> "assignee", fromString |-> "", toString |-> "", from |-> from_id, to |-> to_id]
FlaggedItem(to_string) ==
    [field |-> "Flagged", fromString |-> "", toString |-> to_string, from |-> "", to |-> ""]
ResolutionItem(to_string) ==
    [field |-> "resolution", fromString |-> "", toString |-> to_string, from |-> "", to |-> ""]

Entry(created, author, items) == [created |-> created, author |-> author, items |-> items]

\* all sequences over S of length at most n
RECURSIVE SeqsUpTo(_, _)
SeqsUpTo(S, n) ==
    IF n = 0 THEN {<<>>}
    ELSE LET shorter == SeqsUpTo(S, n - 1) IN
         shorter \cup {Append(q, x) : q \in {r \in shorter : Len(r) = n - 1}, x \in S}

Key == "KEY-1"

\* no batch in progress: a strategy is called directly
NoBatch ==
    /\ issue_keys = <<>>
    /\ changelogs = <<>>
    /\ position = 1
    /\ results = <<>>

\* no request in flight: the histories are handed over directly
NoRequest ==
    request = [state |-> "idle"]

\* Histories of the accounting specification: status changes through an
\* in-progress, two excludable and a done status, and the Flagged field.
MaxLen == 4

\* raw timestamps, as hours; ties are possible
AccountingHours == {1, 2, 3}

AccountingItems ==
    {StatusItem("Backlog", "In Development"), StatusItem("In Development", "Acceptance"),
     StatusItem("Acceptance", "Feedback"), StatusItem("In Development", "Done"),
     FlaggedItem("Impediment"), FlaggedItem("None")}

AccountingEntries ==
    {Entry(<<t>>, NoneStr, <<it>>) : t \in AccountingHours, it \in AccountingItems}

ExcludeConfigs == {{"Acceptance"}, {"Acceptance", "Feedback"}}

Init ==
    /\ histories \in SeqsUpTo(AccountingEntries, MaxLen)
    /\ assignee_account_id = NoneStr
    /\ exclude_statuses \in ExcludeConfigs
    /\ is_qa = FALSE
    /\ strategy = "none"
    /\ result = NoResult
    /\ NoBatch
    /\ NoRequest

\* Histories of the chronological specification: the same entries, in
\* non-decreasing order of their timestamps, as a provider would deliver a
\* changelog oldest first.
MaxChronoLen == 5

ChronoTimes(n) ==
    {ts \in [1..n -> AccountingHours] : \A i \in 1..n : \A j \in i..n : ts[i] <= ts[j]}

InitChrono ==
    /\ \E n \in 0..MaxChronoLen :
         \E ts \in ChronoTimes(n) :
           \E its \in [1..n -> AccountingItems] :
             histories = [i \in 1..n |-> Entry(<<ts[i]>>, NoneStr, <<its[i]>>)]
    /\ assignee_account_id = NoneStr
    /\ exclude_statuses \in ExcludeConfigs
    /\ is_qa = FALSE
    /\ strategy = "none"
    /\ result = NoResult
    /\ NoBatch
    /\ NoRequest

\* Histories of the worker specification: status changes authored by one of
\* two people, assignments, a resolution; hours chosen so that some events
\* fall within the grace period after an interval end and some do not.
MaxWorkerLen == 3

WorkerHours == {1, 2, 8}
Persons == {"A", "B"}

WorkerEntries ==
    {Entry(<<t>>, a, <<it>>) :
        t \in WorkerHours, a \in Persons,
        it \in {StatusItem("Backlog", "In Development"),
                StatusItem("In Development", "Done")}}
    \cup
    {Entry(<<t>>, NoneStr, <<it>>) :
        t \in WorkerHours,
        it \in {AssigneeItem("", "A"), AssigneeItem("A", "B"), ResolutionItem("Fixed")}}

InitWorker ==
    /\ histories \in SeqsUpTo(WorkerEntries, MaxWorkerLen)
    /\ assignee_account_id \in Persons \cup {NoneStr}
    /\ exclude_statuses = {"Acceptance"}
    /\ is_qa \in BOOLEAN
    /\ strategy = "none"
    /\ result = NoResult
    /\ NoBatch
    /\ NoRequest

\* Histories of the reassignment specification: chronological changelogs in
\* which a person is assigned, unassigned and assigned again around the
\* work, as in the multiple-assignment-periods use case.
MaxReassignLen == 5

ReassignItems ==
    {AssigneeItem("", "A"), AssigneeItem("A", "B"), AssigneeItem("B", "A"),
     StatusItem("Backlog", "In Development"), StatusItem("In Development", "Done")}

InitReassign ==
    /\ \E n \in 0..MaxReassignLen :
         \E ts \in ChronoTimes(n) :
           \E its \in [1..n -> ReassignItems] :
             histories = [i \in 1..n |-> Entry(<<ts[i]>>, NoneStr, <<its[i]>>)]
    /\ assignee_account_id \in Persons
    /\ exclude_statuses = {"Acceptance"}
    /\ is_qa = FALSE
    /\ strategy = "none"
    /\ result = NoResult
    /\ NoBatch
    /\ NoRequest

\* Histories of the equivalence specification: chronological changelogs, no
\* worker filter (None or the empty string); besides the plain transitions,
\* a pause into a non-work status and a resolution, which only the complex
\* strategy looks at.
MaxEquivLen == 4

EquivItems ==
    {StatusItem("Backlog", "In Development"), StatusItem("In Development", "Done"),
     StatusItem("In Development", "On Hold"), StatusItem("In Development", "Acceptance"),
     ResolutionItem("Fixed")}

InitEquiv ==
    /\ \E n \in 0..MaxEquivLen :
         \E ts \in ChronoTimes(n) :
           \E its \in [1..n -> EquivItems] :
             histories = [i \in 1..n |-> Entry(<<ts[i]>>, NoneStr, <<its[i]>>)]
    /\ assignee_account_id \in {NoneStr, ""}
    /\ exclude_statuses = {"Acceptance"}
    /\ is_qa = FALSE
    /\ strategy = "none"
    /\ result = NoResult
    /\ NoBatch
    /\ NoRequest

\* Histories of the selection specification: entries carrying up to three
\* items, so that the item counts pass the selector's thresholds; the worker
\* argument is None, the empty string or a person.
MaxSelLen == 3

SelHours == {1, 2}

SelItemLists ==
    {<<StatusItem("Backlog", "In Development")>>,
     <<StatusItem("Backlog", "In Development"), StatusItem("In Development", "Done")>>,
     <<StatusItem("Backlog", "In Development"), StatusItem("In Development", "In Review"),
       StatusItem("In Review", "Done")>>,
     <<AssigneeItem("", "A")>>,
     <<AssigneeItem("", "A"), AssigneeItem("A", "B")>>,
     <<StatusItem("Backlog", "In Development"), AssigneeItem("", "A")>>,
     <<FlaggedItem("Impediment")>>}

SelEntries == {Entry(<<t>>, NoneStr, its) : t \in SelHours, its \in SelItemLists}

InitSel ==
    /\ histories \in SeqsUpTo(SelEntries, MaxSelLen)
    /\ assignee_account_id \in {NoneStr, "", "A"}
    /\ exclude_statuses = {"Acceptance"}
    /\ is_qa = FALSE
    /\ strategy = "none"
    /\ result = NoResult
    /\ NoBatch
    /\ NoRequest

\* SimpleCycleTimeStrategy.calculate
RunSimple ==
    /\ strategy = "none"
    /\ strategy' = "simple"
    /\ result' = SimpleCalculate(histories, ExcludeLower(exclude_statuses), is_qa, Key,
                                 assignee_account_id)
    /\ UNCHANGED <<histories, assignee_account_id, exclude_statuses, is_qa>>
    /\ UNCHANGED batch_vars
    /\ UNCHANGED request

\* ComplexCycleTimeStrategy.calculate
RunComplex ==
    /\ strategy = "none"
    /\ strategy' = "complex"
    /\ result' = ComplexCalculate(histories, ExcludeLower(exclude_statuses), is_qa, Key,
                                  assignee_account_id)
    /\ UNCHANGED <<histories, assignee_account_id, exclude_statuses, is_qa>>
    /\ UNCHANGED batch_vars
    /\ UNCHANGED request

Next == RunSimple \/ RunComplex

Spec == Init /\ [][Next]_vars

SpecWorker == InitWorker /\ [][Next]_vars

SpecChrono == InitChrono /\ [][Next]_vars

SpecReassign == InitReassign /\ [][Next]_vars

SpecEquiv == InitEquiv /\ [][Next]_vars

\* CycleTimeCalculator.calculate_cycle_times, for one issue key: select the
\* strategy, then calculate with it
CalculateCycleTimes ==
    /\ strategy = "none"
    /\ LET selected == SelectStrategy(histories, assignee_account_id) IN
       /\ strategy' = selected
       /\ result' = IF selected = "complex"
                    THEN ComplexCalculate(histories, ExcludeLower(exclude_statuses), is_qa,
                                          Key, assignee_account_id)
                    ELSE SimpleCalculate(histories, ExcludeLower(exclude_statuses), is_qa,
                                         Key, assignee_account_id)
    /\ UNCHANGED <<histories, assignee_account_id, exclude_statuses, is_qa>>
    /\ UNCHANGED batch_vars
    /\ UNCHANGED request

NextSel == CalculateCycleTimes

SpecSel == InitSel /\ [][NextSel]_vars

----------------------------------------------------------------------------
(* CycleTimeCalculator.calculate_cycle_times over a list of keys *)

\* what client.get_issue_changelog does for a key: it returns the histories,
\* or it raises
Fetched(hs) == [ok |-> TRUE, histories |-> hs]
FetchError == [ok |-> FALSE, histories |-> <<>>]

\* the CycleTime of the except branch
FailedCycleTime(issue_key) == CycleTime(issue_key, None, None, None, None, None)

\* strategy = self._select_strategy(...); strategy.calculate(...)
CalculateWithSelected(hs, issue_key, w) ==
    IF SelectStrategy(hs, w) = "complex"
    THEN ComplexCalculate(hs, ExcludeLower(exclude_statuses), is_qa, issue_key, w)
    ELSE SimpleCalculate(hs, ExcludeLower(exclude_statuses), is_qa, issue_key, w)

\* results.append at the wrong end
ResultsPrepend(rs, cycle_time) == <<cycle_time>> \o rs

\* results.append(cycle_time)
ResultsAppend(rs, cycle_time) == Append(rs, cycle_time)

MaxKeys == 3

BatchKeys == {"KEY-1", "KEY-2"}

BatchChangelogs ==
    {FetchError,
     Fetched(<<Entry(<<1>>, "A", <<StatusItem("Backlog", "In Development")>>)>>),
     Fetched(<<Entry(<<1>>, "A", <<StatusItem("Backlog", "In Development")>>),
               Entry(<<2>>, "A", <<StatusItem("In Development", "Done")>>)>>),
     Fetched(<<Entry(<<1>>, NoneStr, <<AssigneeItem("", "B")>>),
               Entry(<<2>>, "B", <<StatusItem("Backlog", "In Development")>>),
               Entry(<<3>>, "B", <<StatusItem("In Development", "Done")>>)>>)}

InitBatch ==
    /\ issue_keys \in SeqsUpTo(BatchKeys, MaxKeys)
    /\ changelogs \in [1..Len(issue_keys) -> BatchChangelogs]
    /\ position = 1
    /\ results = <<>>
    /\ histories = <<>>
    /\ assignee_account_id \in {NoneStr, "A"}
    /\ exclude_statuses = {"Acceptance"}
    /\ is_qa = FALSE
    /\ strategy = "none"
    /\ result = NoResult
    /\ NoRequest

\* one pass of the loop, the try branch: fetch, select, calculate, append
FetchAndCalculate ==
    /\ position <= Len(issue_keys)
    /\ changelogs[position].ok
    /\ histories' = changelogs[position].histories
    /\ strategy' = SelectStrategy(histories', assignee_account_id)
    /\ result' = CalculateWithSelected(histories', issue_keys[position], assignee_account_id)
    /\ results' = ResultsAppend(results, result')
    /\ position' = position + 1
    /\ UNCHANGED <<issue_keys, changelogs, assignee_account_id, exclude_statuses, is_qa>>
    /\ UNCHANGED request

\* one pass of the loop, the except branch: the fetch raised
FetchFails ==
    /\ position <= Len(issue_keys)
    /\ ~changelogs[position].ok
    /\ results' = ResultsAppend(results, FailedCycleTime(issue_keys[position]))
    /\ position' = position + 1
    /\ UNCHANGED <<histories, strategy, result>>
    /\ UNCHANGED <<issue_keys, changelogs, assignee_account_id, exclude_statuses, is_qa>>
    /\ UNCHANGED request

\* Histories of the authorship specification: chronological changelogs in
\* which two people move the item and resolve it ("Won't Do" included) and
\* only one of them is ever assigned.
MaxAuthorLen == 3

AuthorItems ==
    {StatusItem("Backlog", "In Development"), StatusItem("In Development", "Done"),
     ResolutionItem("Won't Do")}

AuthorEntries(t) ==
    {Entry(<<t>>, a, <<it>>) : a \in Persons, it \in AuthorItems}
    \cup {Entry(<<t>>, NoneStr, <<AssigneeItem("", "B")>>),
          Entry(<<t>>, NoneStr, <<ResolutionItem("Fixed")>>)}

InitAuthor ==
    /\ \E n \in 0..MaxAuthorLen :
         \E ts \in ChronoTimes(n) :
           histories \in {hs \in [1..n -> UNION {AuthorEntries(t) : t \in AccountingHours}] :
                             \A i \in 1..n : hs[i].created = <<ts[i]>>}
    /\ assignee_account_id \in Persons
    /\ exclude_statuses = {"Acceptance"}
    /\ is_qa \in BOOLEAN
    /\ strategy = "none"
    /\ result = NoResult
    /\ NoBatch
    /\ NoRequest

SpecAuthor == InitAuthor /\ [][Next]_vars

\* Histories of the reopening specification: chronological changelogs in
\* which the item is started, closed, reopened and closed again, with an
\* excluded status on the way.
MaxReopenLen == 5

ReopenHours == {1, 2, 3, 4}

ReopenItems ==
    {StatusItem("Done", "In Development"), StatusItem("In Development", "Done"),
     StatusItem("In Development", "Acceptance")}

ReopenTimes(n) ==
    {ts \in [1..n -> ReopenHours] : \A i \in 1..n : \A j \in i..n : ts[i] <= ts[j]}

InitReopen ==
    /\ \E n \in 0..MaxReopenLen :
         \E ts \in ReopenTimes(n) :
           \E its \in [1..n -> ReopenItems] :
             histories = [i \in 1..n |-> Entry(<<ts[i]>>, NoneStr, <<its[i]>>)]
    /\ assignee_account_id = NoneStr
    /\ exclude_statuses = {"Acceptance"}
    /\ is_qa = FALSE
    /\ strategy = "none"
    /\ result = NoResult
    /\ NoBatch
    /\ NoRequest

SpecReopen == InitReopen /\ [][Next]_vars

\* Histories of the team specification: chronological changelogs in which
\* two people start and finish the item and pass it from one to the other,
\* calculated for either of them or for nobody, in QA mode or not.
MaxTeamLen == 3

TeamEntries(t) ==
    {Entry(<<t>>, a, <<it>>) :
        a \in Persons,
        it \in {StatusItem("Backlog", "In Development"),
                StatusItem("In Development", "Done")}}
    \cup
    {Entry(<<t>>, NoneStr, <<it>>) :
        it \in {AssigneeItem("", "A"), AssigneeItem("A", "B"), ResolutionItem("Fixed")}}

InitTeam ==
    /\ \E n \in 0..MaxTeamLen :
         \E ts \in ChronoTimes(n) :
           histories \in {hs \in [1..n -> UNION {TeamEntries(t) : t \in AccountingHours}] :
                             \A i \in 1..n : hs[i].created = <<ts[i]>>}
    /\ assignee_account_id \in Persons \cup {NoneStr}
    /\ exclude_statuses = {"Acceptance"}
    /\ is_qa \in BOOLEAN
    /\ strategy = "none"
    /\ result = NoResult
    /\ NoBatch
    /\ NoRequest

SpecTeam == InitTeam /\ [][Next]_vars

\* Histories of the parsing specification: entries whose created value
\* cannot be parsed among entries that can, handed to the facade.
MaxParseLen == 3

ParseItemLists ==
    {<<StatusItem("Backlog", "In Development")>>,
     <<StatusItem("In Development", "Done")>>,
     <<StatusItem("Backlog", "In Development"), StatusItem("In Development", "In Review"),
       StatusItem("In Review", "Done")>>}

ParseEntries ==
    {Entry(c, a, its) : c \in {None, <<1>>, <<2>>}, a \in Persons, its \in ParseItemLists}

InitParse ==
    /\ histories \in SeqsUpTo(ParseEntries, MaxParseLen)
    /\ assignee_account_id \in {NoneStr, "A"}
    /\ exclude_statuses = {"Acceptance"}
    /\ is_qa = FALSE
    /\ strategy = "none"
    /\ result = NoResult
    /\ NoBatch
    /\ NoRequest

SpecParse == InitParse /\ [][NextSel]_vars

\* Vocabularies of the vocabulary specification: exclude lists that share a
\* name, up to case, with the in-progress or the done names, and one that
\* does not; __init__ lower-cases and stores whatever it is given.
MaxVocabLen == 3

VocabExcludes == {{"Acceptance"}, {"in development"}, {"Acceptance", "Done"}}

VocabEntries ==
    {Entry(<<t>>, NoneStr, <<it>>) :
        t \in AccountingHours,
        it \in {StatusItem("Backlog", "In Development"),
                StatusItem("In Development", "Acceptance"),
                StatusItem("Acceptance", "Done")}}

InitVocab ==
    /\ histories \in SeqsUpTo(VocabEntries, MaxVocabLen)
    /\ assignee_account_id = NoneStr
    /\ exclude_statuses \in VocabExcludes
    /\ is_qa = FALSE
    /\ strategy = "none"
    /\ result = NoResult
    /\ NoBatch
    /\ NoRequest

SpecVocab == InitVocab /\ [][Next]_vars

\* Histories of the cycle specification: changelogs in any order in which
\* the item is started, closed, reopened and taken by the worker, early in
\* the day and more than four hours later.
MaxCycleLen == 4

CycleHours == {1, 6, 7}

CycleItemLists ==
    {<<StatusItem("Done", "In Development")>>, <<StatusItem("In Development", "Done")>>,
     <<AssigneeItem("", "A"), StatusItem("Backlog", "In Development")>>}

InitCycles ==
    /\ \E n \in 0..MaxCycleLen :
         histories \in [1..n -> {Entry(<<t>>, NoneStr, its) : t \in CycleHours, its \in CycleItemLists}]
    /\ assignee_account_id = "A"
    /\ exclude_statuses = {"Acceptance"}
    /\ is_qa = FALSE
    /\ strategy = "none"
    /\ result = NoResult
    /\ NoBatch
    /\ NoRequest

SpecCycles == InitCycles /\ [][Next]_vars

\* Histories of the grace specification: chronological changelogs late in
\* the day, in which the worker is given the item, starts it and passes it
\* on, and the item is closed within four hours, later the same day, or
\* after midnight.
MaxGraceLen == 4

GraceCreatedHours == {17, 21, 22, 23}

GraceItems ==
    {StatusItem("Backlog", "In Development"), StatusItem("In Development", "Done"),
     AssigneeItem("", "A"), AssigneeItem("A", "B")}

GraceTimes(n) ==
    {ts \in [1..n -> GraceCreatedHours] : \A i \in 1..n : \A j \in i..n : ts[i] <= ts[j]}

InitGrace ==
    /\ \E n \in 0..MaxGraceLen :
         \E ts \in GraceTimes(n) :
           \E its \in [1..n -> GraceItems] :
             histories = [i \in 1..n |-> Entry(<<ts[i]>>, NoneStr, <<its[i]>>)]
    /\ assignee_account_id = "A"
    /\ exclude_statuses = {"Acceptance"}
    /\ is_qa = FALSE
    /\ strategy = "none"
    /\ result = NoResult
    /\ NoBatch
    /\ NoRequest

SpecGrace == InitGrace /\ [][Next]_vars

\* Histories of the completion specification: chronological changelogs in
\* which the worker takes and starts the item and passes it on, and the
\* item is closed by a status, by a resolution, or by a "Won't Do" set by
\* the worker or by somebody else; calculated for the worker or for nobody.
MaxCompletionLen == 3

CompletionCreatedHours == {17, 21, 22}

CompletionEntries(t) ==
    {Entry(<<t>>, NoneStr, its) :
        its \in {<<AssigneeItem("", "A"), StatusItem("Backlog", "In Development")>>,
                 <<AssigneeItem("A", "B")>>,
                 <<StatusItem("In Development", "Done")>>,
                 <<ResolutionItem("Fixed")>>}}
    \cup
    {Entry(<<t>>, a, <<ResolutionItem("Won't Do")>>) : a \in Persons}

CompletionTimes(n) ==
    {ts \in [1..n -> CompletionCreatedHours] : \A i \in 1..n : \A j \in i..n : ts[i] <= ts[j]}

InitCompletion ==
    /\ \E n \in 0..MaxCompletionLen :
         \E ts \in CompletionTimes(n) :
           histories \in {hs \in [1..n -> UNION {CompletionEntries(t) : t \in CompletionCreatedHours}] :
                             \A i \in 1..n : hs[i].created = <<ts[i]>>}
    /\ assignee_account_id \in {"A", NoneStr}
    /\ exclude_statuses = {"Acceptance"}
    /\ is_qa = FALSE
    /\ strategy = "none"
    /\ result = NoResult
    /\ NoBatch
    /\ NoRequest

SpecCompletion == InitCompletion /\ [][Next]_vars

\* Histories of the QA specification: changelogs with one entry an hour in
\* which the item goes from the backlog through development and review to
\* acceptance and out of it, and the QA worker A is made assignee by
\* themselves or by B; calculated for A in QA mode.
MaxQALen == 4

QAEntries(t) ==
    {Entry(<<t>>, "A", <<StatusItem("Backlog", "In Development")>>),
     Entry(<<t>>, "B", <<StatusItem("In Development", "In Review")>>),
     Entry(<<t>>, "A", <<StatusItem("In Review", "Acceptance")>>),
     Entry(<<t>>, "B", <<StatusItem("In Review", "Acceptance")>>),
     Entry(<<t>>, "A", <<StatusItem("In Development", "Acceptance")>>),
     Entry(<<t>>, "B", <<StatusItem("Acceptance", "Done")>>),
     Entry(<<t>>, "A", <<AssigneeItem("", "A")>>),
     Entry(<<t>>, "B", <<AssigneeItem("", "A")>>),
     Entry(<<t>>, "B", <<AssigneeItem("A", "B")>>)}

InitQA ==
    /\ \E n \in 0..MaxQALen :
         histories \in {hs \in [1..n -> UNION {QAEntries(t) : t \in 1..n}] :
                           \A i \in 1..n : hs[i].created = <<i>>}
    /\ assignee_account_id = "A"
    /\ exclude_statuses = {"Acceptance"}
    /\ is_qa = TRUE
    /\ strategy = "none"
    /\ result = NoResult
    /\ NoBatch
    /\ NoRequest

SpecQA == InitQA /\ [][Next]_vars

NextBatch == FetchAndCalculate \/ FetchFails

SpecBatch == InitBatch /\ [][NextBatch]_vars

----------------------------------------------------------------------------
\* JiraClient._make_request_with_retry.  Delays are whole seconds.  A
\* response is [status_code, retry_after]; retry_after is what
\* resp.headers.get("Retry-After") returns: None or a string.  request is
\* the activation of the method: its arguments, the client's request_delay,
\* the loop variable attempt, the local delay, the number of calls of
\* request_func, the responses received, every time.sleep made, and how the
\* call ended.

\* bound on the max_retries argument
MaxRetries == 2

InitialDelays == {1, 2}

RequestDelays == {0, 1}

RetryAfterHeaders ==
    {None, Some(""), Some("0"), Some("3"), Some("-1"), Some("Wed, 21 Oct 2015 07:28:00 GMT")}

Responses ==
    {[status_code |-> 429, retry_after |-> h] : h \in RetryAfterHeaders}
    \cup {[status_code |-> c, retry_after |-> None] : c \in {200, 500}}

\* float(s) on the header values drawn here; None stands for ValueError
ParseFloat(s) ==
    CASE s = "0" -> Some(0)
      [] s = "3" -> Some(3)
      [] s = "-1" -> Some(0 - 1)
      [] OTHER -> None

\* the delay slept before a retry: the header's value when it is a non-empty
\* string that float() accepts, else the delay as it stands
RetryDelay(delay, retry_after) ==
    IF retry_after # None /\ retry_after[1] # ""
    THEN LET parsed == ParseFloat(retry_after[1])
         IN IF parsed # None THEN parsed[1] ELSE delay
    ELSE delay

\* a loop that retries at a constant pace
KeepDelay(delay) == delay

\* delay *= 2
Backoff(delay) == delay * 2

InitRetry ==
    /\ \E m \in 0..MaxRetries : \E d \in InitialDelays : \E rd \in RequestDelays :
         request = [state |-> "running", error |-> "", max_retries |-> m,
                    initial_delay |-> d, request_delay |-> rd, attempt |-> 0,
                    delay |-> d, calls |-> 0, received |-> <<>>, slept |-> <<>>,
                    resp |-> None]
    /\ histories = <<>>
    /\ assignee_account_id = NoneStr
    /\ exclude_statuses = {"Acceptance"}
    /\ is_qa = FALSE
    /\ strategy = "none"
    /\ result = NoResult
    /\ NoBatch

\* a pass of the loop that ends in continue: 429 before the last attempt
RetryAfterRateLimit ==
    /\ request.state = "running"
    /\ request.attempt < request.max_retries
    /\ \E r \in Responses :
         /\ r.status_code = 429
         /\ LET d == RetryDelay(request.delay, r.retry_after) IN
              /\ d >= 0
              /\ request' = [request EXCEPT !.calls = @ + 1,
                                            !.received = Append(@, r),
                                            !.slept = Append(@, d),
                                            !.delay = Backoff(d),
                                            !.attempt = @ + 1]
    /\ UNCHANGED <<histories, assignee_account_id, exclude_statuses, is_qa, strategy, result>>
    /\ UNCHANGED batch_vars

\* the same pass when time.sleep refuses a negative delay: its ValueError
\* is raised outside the inner try and is no HTTPError, so it propagates
SleepRejects ==
    /\ request.state = "running"
    /\ request.attempt < request.max_retries
    /\ \E r \in Responses :
         /\ r.status_code = 429
         /\ RetryDelay(request.delay, r.retry_after) < 0
         /\ request' = [request EXCEPT !.calls = @ + 1,
                                       !.received = Append(@, r),
                                       !.state = "raised",
                                       !.error = "ValueError"]
    /\ UNCHANGED <<histories, assignee_account_id, exclude_statuses, is_qa, strategy, result>>
    /\ UNCHANGED batch_vars

\* the last pass answered 429: raise_for_status raises, the handler finds
\* attempt = max_retries and re-raises
RaiseOnLastAttempt ==
    /\ request.state = "running"
    /\ request.attempt = request.max_retries
    /\ \E r \in Responses :
         /\ r.status_code = 429
         /\ request' = [request EXCEPT !.calls = @ + 1,
                                       !.received = Append(@, r),
                                       !.state = "raised",
                                       !.error = "HTTPError"]
    /\ UNCHANGED <<histories, assignee_account_id, exclude_statuses, is_qa, strategy, result>>
    /\ UNCHANGED batch_vars

\* a pass whose response is not 429: pace the client, return the response
ReturnResponse ==
    /\ request.state = "running"
    /\ \E r \in Responses :
         /\ r.status_code # 429
         /\ request' = [request EXCEPT !.calls = @ + 1,
                                       !.received = Append(@, r),
                                       !.slept = IF request.request_delay > 0
                                                 THEN Append(@, request.request_delay)
                                                 ELSE @,
                                       !.state = "returned",
                                       !.resp = Some(r)]
    /\ UNCHANGED <<histories, assignee_account_id, exclude_statuses, is_qa, strategy, result>>
    /\ UNCHANGED batch_vars

\* request_func raises an error of the transport (no HTTPError): no handler
\* catches it
RequestRaises ==
    /\ request.state = "running"
    /\ request' = [request EXCEPT !.calls = @ + 1,
                                  !.state = "raised",
                                  !.error = "ConnectionError"]
    /\ UNCHANGED <<histories, assignee_account_id, exclude_statuses, is_qa, strategy, result>>
    /\ UNCHANGED batch_vars

NextRetry ==
    \/ RetryAfterRateLimit
    \/ SleepRejects
    \/ RaiseOnLastAttempt
    \/ ReturnResponse
    \/ RequestRaises

SpecRetry == InitRetry /\ [][NextRetry]_vars

\* the interpreter runs the call on: a pass of the loop that can be taken is
\* taken (requests and sleeps return)
SpecRetryLive == InitRetry /\ [][NextRetry]_vars /\ WF_vars(NextRetry)

----------------------------------------------------------------------------
(* Properties *)

\* every reordering of a history
Reorderings(hs) ==
    {[i \in 1..Len(hs) |-> hs[p[i]]] : p \in Permutations(1..Len(hs))}

Ran == strategy # "none"

\* the strategy that ran, applied to another history / exclude list
Recalculate(hs, excl) ==
    IF strategy = "simple"
    THEN SimpleCalculate(hs, ExcludeLower(excl), is_qa, Key, assignee_account_id)
    ELSE ComplexCalculate(hs, ExcludeLower(excl), is_qa, Key, assignee_account_id)

WindowSeconds(r) == TotalSeconds(r.in_progress_at[1], r.done_at[1])

\* C1 (P1, determinism): calculate returns the same CycleTime for every
\* reordering of the entries of the history, for both strategies.
C1_Determinism ==
    Ran => \A h2 \in Reorderings(histories) : Recalculate(h2, exclude_statuses) = result

\* C2 (P2, non-negativity): whenever seconds is present it is >= 0.
C2_NonNegative ==
    (Ran /\ result.seconds # None) => result.seconds[1] >= 0

\* C3 (P3, window closure): whenever seconds is present,
\* seconds <= doneAt - inProgressAt.
C3_WindowClosure ==
    (Ran /\ result.seconds # None) => result.seconds[1] <= WindowSeconds(result)

\* C4 (P4, both-or-neither): seconds present implies in_progress_at and
\* done_at present with done_at >= in_progress_at; done_at is never present
\* without in_progress_at.
C4_BothOrNeither ==
    Ran =>
        /\ result.seconds # None =>
               /\ result.in_progress_at # None
               /\ result.done_at # None
               /\ result.done_at[1] >= result.in_progress_at[1]
        /\ result.done_at # None => result.in_progress_at # None

\* the complex strategy, filtered on a worker, closed a window
C4_Witness ==
    /\ strategy = "complex"
    /\ assignee_account_id = "A"
    /\ result.seconds # None
    /\ result.done_at[1] > result.in_progress_at[1]

\* the in-window events of the result's window, in chronological order
WindowEvents ==
    InWindow(Events(SortedHistories(histories)), result.in_progress_at[1], result.done_at[1])

\* toString of the last item of field f at or before hour t among the
\* in-window events; NoneStr when there is none
LastValue(f, t) ==
    LET ev == WindowEvents
        idx == {i \in 1..Len(ev) : ev[i].item.field = f /\ ev[i].created_at <= t}
    IN IF idx = {} THEN NoneStr
       ELSE ev[CHOOSE i \in idx : \A j \in idx : j <= i].item.toString

\* hours of the window during which the item is at once in an excluded
\* status and flagged Impediment
OverlapHours ==
    {t \in result.in_progress_at[1] .. (result.done_at[1] - 1) :
        /\ Lower(LastValue("status", t)) \in ExcludeLower(exclude_statuses)
        /\ Lower(LastValue("Flagged", t)) = "impediment"}

\* C5 (accounting identity): for a single-cycle result with seconds present,
\* doneAt - inProgressAt = seconds + excludedSeconds + impedimentSeconds -
\* overlap, overlap being the time inside the window during which the item
\* is at once in an excluded status and flagged Impediment.
C5_AccountingIdentity ==
    (Ran /\ ~HasReopening(histories) /\ result.seconds # None) =>
        WindowSeconds(result) =
            result.seconds[1] + result.excluded_seconds[1] + result.impediment_seconds[1]
            - Cardinality(OverlapHours) * SecondsPerHour

ExcludableNames == {"Acceptance", "Feedback"}

\* C6 (P5, exclusion monotonicity): for a fixed history, widening the
\* excluded set can only decrease seconds or leave it unchanged.
C6_ExclusionMonotone ==
    Ran => \A wider \in SUBSET ExcludableNames :
              (exclude_statuses \subseteq wider
                  /\ result.seconds # None
                  /\ Recalculate(histories, wider).seconds # None)
              => Recalculate(histories, wider).seconds[1] <= result.seconds[1]

\* the assignment intervals of the worker the run filters on
IntervalsOfWorker == GetAssigneePeriods(histories, assignee_account_id)

InSomeInterval(t) ==
    \E k \in 1..Len(IntervalsOfWorker) : InPeriod(t, IntervalsOfWorker[k])

FirstIntervalStart == FirstPeriodStart(Some(IntervalsOfWorker))

\* times of the status transitions into an in-progress status
InProgressTransitionTimes ==
    LET ev == Events(histories) IN
    {ev[k].created_at : k \in {j \in 1..Len(ev) :
        ev[j].item.field = "status" /\ Lower(ev[j].item.toString) \in in_progress_lower}}

FilteredComplexRun == strategy = "complex" /\ Truthy(assignee_account_id)

\* C7 (P6, worker confinement): whenever the complex strategy run with
\* filter w returns a non-nil inProgressAt, that instant lies inside some
\* assignment interval of w (per the membership predicate) or is the start
\* of w's first interval (the hand-off point).
C7_WorkerConfinement ==
    (FilteredComplexRun /\ result.in_progress_at # None) =>
        \/ InSomeInterval(result.in_progress_at[1])
        \/ /\ IntervalsOfWorker # <<>>
           /\ result.in_progress_at[1] = FirstIntervalStart

\* C7 as the code has it: with QA mode off, the instant is inside an
\* interval of w, or is the start of w's first interval, or w has no
\* interval at all (w only authored transitions: no confinement), or - the
\* first assignment - is the time of a transition into an in-progress
\* status, the status at the start of w's first interval being in-progress.
C7_WorkerConfinementAmended ==
    (FilteredComplexRun /\ ~is_qa /\ result.in_progress_at # None) =>
        \/ IntervalsOfWorker = <<>>
        \/ InSomeInterval(result.in_progress_at[1])
        \/ result.in_progress_at[1] = FirstIntervalStart
        \/ /\ result.in_progress_at[1] \in InProgressTransitionTimes
           /\ GetStatusAtTime(histories, FirstIntervalStart) \in in_progress_lower

\* a hand-off: the start is the beginning of the worker's first interval
\* and no transition into an in-progress status happened at that instant
C7_Witness ==
    /\ FilteredComplexRun /\ ~is_qa
    /\ result.in_progress_at # None
    /\ IntervalsOfWorker # <<>>
    /\ result.in_progress_at[1] = FirstIntervalStart
    /\ result.in_progress_at[1] \notin InProgressTransitionTimes

\* the worker is the assignee during the hour starting at t
AssignedAt(t) ==
    \E k \in 1..Len(IntervalsOfWorker) :
        LET p == IntervalsOfWorker[k] IN
        p[1] <= t /\ (p[2] = None \/ t < p[2][1])

\* hours of the window that fall in a gap between two of the worker's
\* assignment intervals
GapHours ==
    {t \in result.in_progress_at[1] .. (result.done_at[1] - 1) :
        /\ ~AssignedAt(t)
        /\ \E k \in 1..Len(IntervalsOfWorker) :
               IntervalsOfWorker[k][2] # None /\ IntervalsOfWorker[k][2][1] <= t
        /\ \E k \in 1..Len(IntervalsOfWorker) : IntervalsOfWorker[k][1] > t}

\* C8 (only time while assigned): with a worker filter, the time inside
\* [inProgressAt, doneAt] that falls in a gap between two of the worker's
\* assignment intervals is not included in seconds.
C8_OnlyWhileAssigned ==
    (FilteredComplexRun /\ result.seconds # None) =>
        result.seconds[1] <= WindowSeconds(result) - Cardinality(GapHours) * SecondsPerHour

\* the strategy that did not run, applied to the same input
OtherStrategyResult ==
    IF strategy = "simple"
    THEN ComplexCalculate(histories, ExcludeLower(exclude_statuses), is_qa, Key,
                          assignee_account_id)
    ELSE SimpleCalculate(histories, ExcludeLower(exclude_statuses), is_qa, Key,
                         assignee_account_id)

NoWorkerFilter == ~Truthy(assignee_account_id)

AllItems == LET ev == Events(histories) IN {ev[k].item : k \in 1..Len(ev)}

NoNonWorkStatus ==
    \A it \in AllItems : it.field = "status" => Lower(it.toString) \notin non_work_states

NoResolution ==
    \A it \in AllItems :
        it.field = "resolution" => (~Truthy(it.toString) \/ Lower(it.toString) = "none")

\* C9 (P7, reopening idempotence): for every history with no
\* done->inProgress transition, the same vocabulary and no worker filter,
\* the simple and the complex strategy return identical seconds.
C9_StrategiesAgree ==
    (Ran /\ NoWorkerFilter /\ ~HasReopening(histories)) =>
        result.seconds = OtherStrategyResult.seconds

\* C9 as the code has it: the two strategies agree when, in addition, the
\* history has no status event into a non-work status (on hold, waiting,
\* paused, stopped, cancelled) and no resolution event with a non-empty,
\* non-"None" value.
C9_StrategiesAgreeAmended ==
    (Ran /\ NoWorkerFilter /\ ~HasReopening(histories) /\ NoNonWorkStatus /\ NoResolution) =>
        result.seconds = OtherStrategyResult.seconds

\* both strategies closed a window with excluded time in it
C9_Witness ==
    /\ Ran /\ NoWorkerFilter /\ ~HasReopening(histories) /\ NoNonWorkStatus /\ NoResolution
    /\ result.seconds # None
    /\ result.excluded_seconds[1] > 0
    /\ result.seconds[1] > 0
    /\ OtherStrategyResult.seconds = result.seconds

\* the items of field f, counted one by one
ItemsOfField(f) ==
    {<<i, k>> \in (1..Len(histories)) \X (1..3) :
        k <= Len(histories[i].items) /\ histories[i].items[k].field = f}

\* C10 (strategy selector): the selector returns the complex strategy if
\* and only if a worker filter is provided, or the history contains more
\* than two assignee items, or more than five status items.
C10_Selector ==
    Ran => (strategy = "complex" <=>
               \/ assignee_account_id # NoneStr
               \/ Cardinality(ItemsOfField("assignee")) > 2
               \/ Cardinality(ItemsOfField("status")) > 5)

\* exactly two assignee items and exactly five status items, no filter:
\* the simple strategy was selected and ran
C10_Witness ==
    /\ assignee_account_id = NoneStr
    /\ Cardinality(ItemsOfField("assignee")) = 2
    /\ Cardinality(ItemsOfField("status")) = 5
    /\ strategy = "simple"
    /\ result.in_progress_at # None

\* C11 (batch): calculate_cycle_times yields one CycleTime per key handled,
\* in input order and carrying that key; a key whose fetch failed has
\* inProgressAt, doneAt and seconds all nil, and every other key has the
\* result it would have had alone, whatever failed before it.
C11_Batch ==
    /\ Len(results) = position - 1
    /\ position <= Len(issue_keys) + 1
    /\ \A i \in 1..Len(results) :
          /\ results[i].issue_key = issue_keys[i]
          /\ IF changelogs[i].ok
             THEN results[i] = CalculateWithSelected(changelogs[i].histories, issue_keys[i],
                                                     assignee_account_id)
             ELSE /\ results[i].in_progress_at = None
                  /\ results[i].done_at = None
                  /\ results[i].seconds = None

\* a batch of three keys is through; the fetch of the second one failed and
\* the third one still got its cycle time
C11_Witness ==
    /\ Len(issue_keys) = 3
    /\ position = 4
    /\ issue_keys[1] # issue_keys[2]
    /\ ~changelogs[2].ok
    /\ Len(results) = 3
    /\ results[3].seconds # None

AllNil(r) == r.in_progress_at = None /\ r.done_at = None /\ r.seconds = None

\* C12 (no start): with QA mode off, for a history with no status
\* transition into an in-progress status, calculate (either strategy, with
\* or without a worker filter) returns inProgressAt, doneAt and seconds all
\* nil, whatever done or resolution events the history has.
C12_NoStart ==
    (Ran /\ ~is_qa /\ InProgressTransitionTimes = {}) => AllNil(result)

\* the complex strategy ran for a worker who is assigned, on a history with
\* a transition into done and a resolution but no transition into in-progress
C12_Witness ==
    /\ strategy = "complex"
    /\ ~is_qa
    /\ assignee_account_id = "A"
    /\ IntervalsOfWorker # <<>>
    /\ InProgressTransitionTimes = {}
    /\ \E i \in 1..Len(histories) : histories[i].items[1].field = "resolution"
    /\ \E i \in 1..Len(histories) :
          histories[i].items[1].field = "status" /\ histories[i].items[1].toString = "Done"
    /\ AllNil(result)

\* times of the status transitions into a done status
DoneTransitionTimes ==
    LET ev == Events(histories) IN
    {ev[k].created_at : k \in {j \in 1..Len(ev) :
        ev[j].item.field = "status" /\ Lower(ev[j].item.toString) \in done_lower}}

\* a transition into in-progress, and no transition into done at or after
\* the earliest one
StartedNeverDone ==
    /\ InProgressTransitionTimes # {}
    /\ \A t \in DoneTransitionTimes : t < SetMin(InProgressTransitionTimes)

StartOnly(r) ==
    /\ r.in_progress_at = Some(SetMin(InProgressTransitionTimes))
    /\ r.done_at = None
    /\ r.seconds = None

\* C13 (in progress, never done): the simple strategy, for a history with a
\* transition into an in-progress status and no transition into a done
\* status at or after the earliest such transition, returns inProgressAt =
\* the earliest in-progress transition time, doneAt and seconds nil.
C13_StartOnly ==
    (strategy = "simple" /\ StartedNeverDone) => StartOnly(result)

\* the worker is the target of some assignee event
AssignedSometime(w) ==
    \E i \in 1..Len(histories) : \E k \in 1..Len(histories[i].items) :
        histories[i].items[k].field = "assignee" /\ histories[i].items[k].to = w

\* the worker authored a status transition into an in-progress or done status
AuthoredTransition(w) ==
    \E i \in 1..Len(histories) : \E k \in 1..Len(histories[i].items) :
        /\ histories[i].author = w
        /\ histories[i].items[k].field = "status"
        /\ Lower(histories[i].items[k].toString) \in (in_progress_lower \cup done_lower)

UnfilteredComplexResult ==
    ComplexCalculate(histories, ExcludeLower(exclude_statuses), is_qa, Key, NoneStr)

\* C14 (worker never involved): the complex strategy with QA mode off, for
\* a filtered worker who is never the target of an assignee event and never
\* authored a status transition into an in-progress or done status, returns
\* inProgressAt, doneAt and seconds all nil, whatever the other events are.
C14_NeverInvolved ==
    (/\ FilteredComplexRun
     /\ ~is_qa
     /\ ~AssignedSometime(assignee_account_id)
     /\ ~AuthoredTransition(assignee_account_id)) => AllNil(result)

\* the item was assigned to B, who started and finished it; filtered on A
\* the result is empty although the unfiltered one has a cycle time
C14_Witness ==
    /\ FilteredComplexRun
    /\ ~is_qa
    /\ assignee_account_id = "A"
    /\ ~AssignedSometime("A")
    /\ ~AuthoredTransition("A")
    /\ AssignedSometime("B")
    /\ AuthoredTransition("B")
    /\ UnfilteredComplexResult.seconds # None
    /\ AllNil(result)

\* the filtered worker has no assignment interval but authored a transition
AuthorOnly ==
    /\ FilteredComplexRun
    /\ IntervalsOfWorker = <<>>
    /\ AuthoredTransition(assignee_account_id)

SameTimes(r, q) ==
    /\ r.in_progress_at = q.in_progress_at
    /\ r.done_at = q.done_at
    /\ r.seconds = q.seconds

\* a "Won't Do" resolution set by somebody other than w
WontDoByAnother(w) ==
    \E i \in 1..Len(histories) : \E k \in 1..Len(histories[i].items) :
        /\ histories[i].author # w
        /\ histories[i].items[k].field = "resolution"
        /\ Lower(histories[i].items[k].toString) \in {"won't do", "wont do"}

\* C15 (author without assignment): when the filtered worker has no
\* assignment interval but authored a status transition into an in-progress
\* or done status, the complex strategy returns the inProgressAt, doneAt and
\* seconds it returns for the same history with no worker filter.
C15_AuthorAsNoFilter ==
    AuthorOnly => SameTimes(result, UnfilteredComplexResult)

\* C15 as the code has it: the same, with QA mode off and no "Won't Do"
\* resolution set by somebody else in the history.
C15_AuthorAsNoFilterAmended ==
    (AuthorOnly /\ ~is_qa /\ ~WontDoByAnother(assignee_account_id))
        => SameTimes(result, UnfilteredComplexResult)

\* A was never assigned, started the item and closed it as "Won't Do": the
\* filtered result has the cycle time of the unfiltered one
C15_Witness ==
    /\ AuthorOnly
    /\ ~is_qa
    /\ assignee_account_id = "A"
    /\ AssignedSometime("B")
    /\ ~WontDoByAnother("A")
    /\ DoneTransitionTimes = {}
    /\ result.seconds # None
    /\ result.seconds[1] > 0
    /\ SameTimes(result, UnfilteredComplexResult)

ChronoEvents == Events(SortedHistories(histories))

\* toString of the last item of field f among the events that satisfy Before
LastOf(f, Before(_)) ==
    LET ev == ChronoEvents
        idx == {k \in 1..Len(ev) : ev[k].item.field = f /\ Before(ev[k].created_at)}
    IN IF idx = {} THEN <<>> ELSE <<ev[CHOOSE k \in idx : \A j \in idx : j <= k].item>>

\* the status of the item at hour t
StatusAt(t) ==
    LET it == LastOf("status", LAMBDA u : u <= t) IN
    IF it = <<>> THEN NoneStr ELSE Lower(it[1].toString)

\* the assignee of the item immediately before hour t; "" when unassigned
AssigneeBefore(t) ==
    LET it == LastOf("assignee", LAMBDA u : u < t) IN
    IF it = <<>> THEN "" ELSE it[1].to

\* the earliest valid transition into an in-progress status
EarliestValidStart ==
    LET ev == Events(histories) IN
    SetMin({ev[k].created_at : k \in ValidTransitions(histories)})

\* a filtered run of the complex strategy on a non-reopened history, the
\* worker having an assignment interval and the item being in progress at
\* its start
TakenOverInProgress ==
    /\ FilteredComplexRun
    /\ ~HasReopening(histories)
    /\ IntervalsOfWorker # <<>>
    /\ ValidTransitions(histories) # {}
    /\ StatusAt(FirstIntervalStart) \in in_progress_lower

HandOff ==
    /\ TakenOverInProgress
    /\ ~InSomeInterval(EarliestValidStart)
    /\ AssigneeBefore(FirstIntervalStart) \notin {"", assignee_account_id}

FirstAssignment ==
    /\ TakenOverInProgress
    /\ AssigneeBefore(FirstIntervalStart) = ""

\* C16 (hand-off): complex strategy with a worker filter on a non-reopened
\* history: when the earliest valid in-progress transition lies outside all
\* of the worker's assignment intervals, the status at the start t0 of the
\* worker's first interval is in-progress and the assignee immediately
\* before t0 was a different person, inProgressAt = t0.
C16_HandOff ==
    HandOff => result.in_progress_at = Some(FirstIntervalStart)

\* C16 as the code has it: the same, with QA mode off.
C16_HandOffAmended ==
    (HandOff /\ ~is_qa) => result.in_progress_at = Some(FirstIntervalStart)

\* somebody else started the item and it was handed over later: the start
\* is the hand-over, after the status change
C16_Witness ==
    /\ HandOff
    /\ ~is_qa
    /\ EarliestValidStart < FirstIntervalStart
    /\ result.in_progress_at = Some(FirstIntervalStart)

\* C17 (first assignment): complex strategy with a worker filter on a
\* non-reopened history: when the item moved to in-progress while unassigned
\* (no assignee immediately before the worker's first interval start t0)
\* and the status at t0 is in-progress, inProgressAt = the earliest valid
\* in-progress transition, even though it precedes t0, and not t0.
C17_FirstAssignment ==
    FirstAssignment => result.in_progress_at = Some(EarliestValidStart)

\* C17 as the code has it: the same, with QA mode off.
C17_FirstAssignmentAmended ==
    (FirstAssignment /\ ~is_qa) => result.in_progress_at = Some(EarliestValidStart)

\* the item was started unassigned and assigned later: the start is the
\* status change, before the assignment
C17_Witness ==
    /\ FirstAssignment
    /\ ~is_qa
    /\ EarliestValidStart < FirstIntervalStart
    /\ ~InSomeInterval(EarliestValidStart)
    /\ result.in_progress_at = Some(EarliestValidStart)

IsStart(e) == e.item.field = "status" /\ Lower(e.item.toString) \in in_progress_lower
IsClosure(e) == e.item.field = "status" /\ Lower(e.item.toString) \in done_lower

\* the events that open a cycle: a transition into in-progress with every
\* earlier such transition closed in between
CycleStarts ==
    LET ev == ChronoEvents IN
    {k \in 1..Len(ev) :
        /\ IsStart(ev[k])
        /\ \A j \in 1..(k - 1) : IsStart(ev[j]) => \E d \in (j + 1)..(k - 1) : IsClosure(ev[d])}

\* the events that close the cycle opened by event k
ClosuresOf(k) == {d \in (k + 1)..Len(ChronoEvents) : IsClosure(ChronoEvents[d])}

CompletedCycles == {k \in CycleStarts : ClosuresOf(k) # {}}

CycleEnd(k) == ChronoEvents[SetMin(ClosuresOf(k))].created_at

\* (cycleEnd - cycleStart) - excluded - impediment + overlap of one cycle
ActiveSeconds(k) ==
    WindowCycleTime(histories, ExcludeLower(exclude_statuses), Key,
                    ChronoEvents[k].created_at, CycleEnd(k)).seconds[1]

RECURSIVE SumActive(_)
SumActive(K) ==
    IF K = {} THEN 0
    ELSE LET k == CHOOSE x \in K : TRUE IN ActiveSeconds(k) + SumActive(K \ {k})

\* a transition into in-progress whose preceding status event went into done
Reopened ==
    LET ev == ChronoEvents IN
    \E d \in 1..Len(ev) : \E k \in (d + 1)..Len(ev) :
        /\ IsClosure(ev[d])
        /\ IsStart(ev[k])
        /\ \A j \in (d + 1)..(k - 1) : ev[j].item.field # "status"

ExcludedHours ==
    {t \in result.in_progress_at[1] .. (result.done_at[1] - 1) :
        Lower(LastValue("status", t)) \in ExcludeLower(exclude_statuses)}

\* C19 (excluded time): for a chronologically ordered history and the
\* window [W0, W1] of a single-cycle result, excludedSeconds is the total
\* time within the window during which the status is any member of the
\* excluded set, the time spent moving directly from one excluded status to
\* another included.
C19_ExcludedTime ==
    (Ran /\ ~HasReopening(histories) /\ result.seconds # None) =>
        result.excluded_seconds = Some(Cardinality(ExcludedHours) * SecondsPerHour)

\* the done transitions strictly later than hour t
DoneAfter(t) == {u \in DoneTransitionTimes : u > t}

\* C20 (fast path): the simple strategy on a history without reopening
\* returns inProgressAt = the earliest timestamp of a status transition
\* into an in-progress status in the whole history, and doneAt = the
\* earliest timestamp strictly later than inProgressAt of a status
\* transition into a done status.
C20_FastPath ==
    (strategy = "simple" /\ ~Reopened) =>
        /\ result.in_progress_at =
              (IF InProgressTransitionTimes = {} THEN None
               ELSE Some(SetMin(InProgressTransitionTimes)))
        /\ result.in_progress_at # None =>
              result.done_at =
                (IF DoneAfter(result.in_progress_at[1]) = {} THEN None
                 ELSE Some(SetMin(DoneAfter(result.in_progress_at[1]))))

\* a closure at the very hour of the start and another one later: the
\* window goes from the start to the later one
C20_Witness ==
    /\ strategy = "simple"
    /\ ~Reopened
    /\ Cardinality(DoneTransitionTimes) > 1
    /\ result.in_progress_at # None
    /\ result.in_progress_at[1] \in DoneTransitionTimes
    /\ result.done_at # None
    /\ result.done_at[1] > result.in_progress_at[1]

\* C21 (worker ignored): SimpleCycleTimeStrategy.calculate returns, for the
\* same history and vocabulary, the same CycleTime for any two worker
\* identities, including none.
C21_SimpleIgnoresWorker ==
    strategy = "simple" =>
        \A w \in Persons \cup {NoneStr} :
            SimpleCalculate(histories, ExcludeLower(exclude_statuses), is_qa, Key, w) = result

RemoveAt(hs, i) == SubSeq(hs, 1, i - 1) \o SubSeq(hs, i + 1, Len(hs))

\* C22 (unparseable entries): an entry whose created timestamp cannot be
\* parsed is a non-event: removing it changes neither the strategy the
\* facade selects nor the CycleTime returned.
C22_UnparseableIsNonEvent ==
    Ran => \A i \in 1..Len(histories) :
              ParseJiraDatetime(histories[i].created) = None =>
                  /\ SelectStrategy(RemoveAt(histories, i), assignee_account_id) = strategy
                  /\ CalculateWithSelected(RemoveAt(histories, i), Key, assignee_account_id)
                         = result

\* a name that, compared case-insensitively, is in two of the three sets
VocabularyOverlaps ==
    \/ in_progress_lower \cap done_lower # {}
    \/ in_progress_lower \cap ExcludeLower(exclude_statuses) # {}
    \/ done_lower \cap ExcludeLower(exclude_statuses) # {}

\* C23 (overlapping vocabulary): a vocabulary whose sets overlap is
\* rejected: no strategy constructed with it ever returns a CycleTime.
C23_OverlapRejected ==
    VocabularyOverlaps => (strategy = "none" /\ result = NoResult)

\* the instant is the created value of some entry plus one hour
CreatedPlusOneHour(t) ==
    \E i \in 1..Len(histories) :
        histories[i].created # <<>> /\ t = histories[i].created[1] + 1

\* C24 (one-hour correction): every non-nil inProgressAt and doneAt
\* returned equals the instant of the created timestamp of some entry of
\* the input history plus exactly one hour.
C24_CreatedPlusOneHour ==
    Ran =>
        /\ result.in_progress_at # None => CreatedPlusOneHour(result.in_progress_at[1])
        /\ result.done_at # None => CreatedPlusOneHour(result.done_at[1])

\* a filtered run closed a window: its start and its end are each one hour
\* after the created value of an entry
C24_Witness ==
    /\ FilteredComplexRun
    /\ result.in_progress_at # None
    /\ result.done_at # None
    /\ result.done_at[1] > result.in_progress_at[1]
    /\ CreatedPlusOneHour(result.in_progress_at[1])
    /\ CreatedPlusOneHour(result.done_at[1])

\* the worker intervals the cycle finder is given: none, the ones built for
\* either person from the history, and lists with a closed interval early
\* in the day, an open one late in the day, or both
CyclePeriodChoices ==
    {None, Some(<<>>),
     Some(GetAssigneePeriods(histories, "A")), Some(GetAssigneePeriods(histories, "B")),
     Some(<<<<2, Some(2)>>>>), Some(<<<<8, None>>>>), Some(<<<<7, Some(8)>>>>),
     Some(<<<<2, Some(2)>>, <<8, None>>>>)}

\* a transition of the replayed events ev the finder with these intervals
\* can act on
Qualified(ev, k, ap) ==
    /\ IsStart(ev[k]) \/ IsClosure(ev[k])
    /\ IsInAssigneePeriod(ev[k].created_at, ap)

\* the last qualified transition before event k, 0 when there is none
LastQualified(ev, k, ap) ==
    LET Q == {j \in 1..(k - 1) : Qualified(ev, j, ap)} IN
    IF Q = {} THEN 0 ELSE CHOOSE j \in Q : \A m \in Q : m <= j

\* the transitions into in-progress met with no cycle open
Opens(ev, ap) ==
    {k \in 1..Len(ev) :
        /\ IsStart(ev[k]) /\ Qualified(ev, k, ap)
        /\ LET j == LastQualified(ev, k, ap) IN j = 0 \/ IsClosure(ev[j])}

\* the transitions into done met with a cycle open
Closes(ev, ap) ==
    {k \in 1..Len(ev) :
        /\ IsClosure(ev[k]) /\ Qualified(ev, k, ap)
        /\ LET j == LastQualified(ev, k, ap) IN j # 0 /\ IsStart(ev[j])}

CompletedOf(cycles) == {n \in 1..Len(cycles) : cycles[n][2] # None}

\* chronological, start <= end, no overlap, only the last may be open
CyclesInOrder(cycles) ==
    /\ \A n \in CompletedOf(cycles) : cycles[n][1] <= cycles[n][2][1]
    /\ \A n \in 1..(Len(cycles) - 1) :
          /\ cycles[n][2] # None
          /\ cycles[n][2][1] <= cycles[n + 1][1]
          /\ cycles[n][1] <= cycles[n + 1][1]

\* one cycle per transition into in-progress met with no cycle open, one
\* completed cycle per transition into done met with a cycle open
CyclesCounted(ev, cycles, ap) ==
    /\ Len(cycles) = Cardinality(Opens(ev, ap))
    /\ Cardinality(CompletedOf(cycles)) = Cardinality(Closes(ev, ap))

\* C25 (cycle finder): for any history and any worker intervals the list
\* of cycles is in chronological order, every completed cycle has
\* start <= end, each cycle's end <= the next cycle's start, at most one
\* cycle has no end and it is the last; a transition into in-progress while
\* a cycle is open opens no second cycle and a transition into done with no
\* cycle open adds nothing.
C25_CyclesInOrder ==
    Ran =>
        LET ev == ChronoEvents
            simple == SimpleFindAllCycles(histories)
        IN /\ CyclesInOrder(simple)
           /\ CyclesCounted(ev, simple, None)
           /\ \A ap \in CyclePeriodChoices :
                 LET cycles == ComplexFindAllCycles(histories, ap) IN
                 CyclesInOrder(cycles) /\ CyclesCounted(ev, cycles, ap)

\* the simple strategy ran over a reopened item: a completed cycle, an open
\* one after it, and a second transition into in-progress while a cycle
\* was open
C25_Witness ==
    /\ strategy = "simple"
    /\ Reopened
    /\ Len(SimpleFindAllCycles(histories)) = 2
    /\ SimpleFindAllCycles(histories)[2][2] = None
    /\ Cardinality({k \in 1..Len(ChronoEvents) : IsStart(ChronoEvents[k])}) > 2
    /\ result.in_progress_at = Some(SimpleFindAllCycles(histories)[1][1])
    /\ result.done_at = SimpleFindAllCycles(histories)[1][2]

\* the n-th element of a set of event positions, and the first of them
\* after position k (0 when there is none)
NthOf(K, n) == CHOOSE k \in K : Cardinality({j \in K : j < k}) = n - 1
FirstAfter(K, k) ==
    LET Later == {c \in K : c > k} IN IF Later = {} THEN 0 ELSE SetMin(Later)

\* what the replay gives: a cycle from each transition into in-progress
\* inside the intervals met with no cycle open, to the first transition
\* into done inside the intervals after it
CyclesInsideIntervals(ev, ap) ==
    [n \in 1..Cardinality(Opens(ev, ap)) |->
        LET k == NthOf(Opens(ev, ap), n)
            c == FirstAfter({d \in 1..Len(ev) : IsClosure(ev[d]) /\ Qualified(ev, d, ap)}, k)
        IN <<ev[k].created_at, IF c = 0 THEN None ELSE Some(ev[c].created_at)>>]

\* C26 (intervals gate the cycles): in the complex cycle finder with worker
\* intervals every cycle start and every cycle end is inside the intervals;
\* a transition into in-progress outside them opens no cycle and a
\* transition into done outside them leaves the open cycle open until a
\* later transition into done inside them.
C26_CyclesInsideIntervals ==
    Ran =>
        \A ap \in CyclePeriodChoices \ {None} :
            LET cycles == ComplexFindAllCycles(histories, ap) IN
            /\ \A n \in 1..Len(cycles) :
                  /\ IsInAssigneePeriod(cycles[n][1], ap)
                  /\ cycles[n][2] # None => IsInAssigneePeriod(cycles[n][2][1], ap)
            /\ cycles = CyclesInsideIntervals(ChronoEvents, ap)

\* the worker took the reopened item late: the earlier transition into
\* in-progress opened no cycle for them; and with an interval early in the
\* day and one late in the day, a transition into done between the two left
\* the cycle open until the next one
C26_Witness ==
    /\ FilteredComplexRun
    /\ HasReopening(histories)
    /\ WorkerPeriods(histories, assignee_account_id)[2] # None
    /\ result.done_at # None
    /\ \E k \in 1..Len(ChronoEvents) :
          /\ IsStart(ChronoEvents[k])
          /\ ChronoEvents[k].created_at < result.in_progress_at[1]
          /\ ~IsInAssigneePeriod(ChronoEvents[k].created_at,
                                 WorkerPeriods(histories, assignee_account_id)[2])
    /\ \E ap \in CyclePeriodChoices \ {None} :
          LET cycles == ComplexFindAllCycles(histories, ap) IN
          \E n \in CompletedOf(cycles) : \E d \in 1..Len(ChronoEvents) :
              /\ IsClosure(ChronoEvents[d])
              /\ cycles[n][1] < ChronoEvents[d].created_at
              /\ ChronoEvents[d].created_at < cycles[n][2][1]
              /\ ~IsInAssigneePeriod(ChronoEvents[d].created_at, ap)

\* the latest assignee event at or before t gave the item to w
OwnedAt(t, w) ==
    LET it == LastOf("assignee", LAMBDA u : u <= t) IN it # <<>> /\ it[1].to = w

\* t is covered by an interval [start, end) or [start, nil) of the list
CoveredAt(t, periods) ==
    \E k \in 1..Len(periods) :
        periods[k][1] <= t /\ (periods[k][2] = None \/ t < periods[k][2][1])

OwnershipInstants == 0..5

\* C27 (assignment intervals): the interval builder returns exactly the
\* periods during which the worker owned the item: an instant t is covered
\* by a returned interval [start, end) or [start, nil) if and only if the
\* latest assignee event at or before t has to = worker; the intervals are
\* in chronological order, do not overlap, and only the last may be open.
C27_IntervalsAreOwnership ==
    FilteredComplexRun =>
        LET periods == GetAssigneePeriods(histories, assignee_account_id) IN
        /\ \A t \in OwnershipInstants :
              CoveredAt(t, periods) <=> OwnedAt(t, assignee_account_id)
        /\ \A k \in 1..(Len(periods) - 1) :
              /\ periods[k][2] # None
              /\ periods[k][2][1] <= periods[k + 1][1]
              /\ periods[k][1] <= periods[k + 1][1]

\* the intervals and the instants membership is asked for: no filter, no
\* interval, the intervals built for either person from the history, a
\* closed interval before midnight, an open one, and both
GracePeriodChoices ==
    {None, Some(<<>>),
     Some(GetAssigneePeriods(histories, "A")), Some(GetAssigneePeriods(histories, "B")),
     Some(<<<<18, Some(22)>>>>), Some(<<<<23, None>>>>), Some(<<<<18, Some(18)>>>>),
     Some(<<<<18, Some(18)>>, <<24, None>>>>)}

GraceInstants == 17..27

\* membership as stated: inside an interval, or at most four hours after
\* the end of a closed one and on the same calendar day
InIntervalOrGrace(t, intervals) ==
    \/ intervals = None
    \/ /\ intervals # None
       /\ \E k \in 1..Len(intervals[1]) :
             LET start == intervals[1][k][1]
                 end == intervals[1][k][2]
             IN \/ end = None /\ start <= t
                \/ end # None /\ start <= t /\ t <= end[1]
                \/ /\ end # None
                   /\ end[1] < t /\ t <= end[1] + 4
                   /\ t \div 24 = end[1] \div 24

\* C28 (membership with grace): isIn(t, intervals) is true exactly when
\* intervals is nil, or some interval has start <= t <= end (start <= t
\* when open-ended), or some closed interval has end < t <= end + 4 hours
\* with t on the same calendar day as end; a timestamp more than 4 hours
\* after every interval end, or on the next calendar day, or before every
\* interval start, is not in-interval.
C28_MembershipWithGrace ==
    Ran =>
        \A ap \in GracePeriodChoices : \A t \in GraceInstants :
            /\ IsInAssigneePeriod(t, ap) <=> InIntervalOrGrace(t, ap)
            /\ ap # None =>
                  /\ (\A k \in 1..Len(ap[1]) : t < ap[1][k][1])
                        => ~IsInAssigneePeriod(t, ap)
                  /\ (\A k \in 1..Len(ap[1]) :
                         /\ ap[1][k][2] # None
                         /\ \/ t > ap[1][k][2][1] + 4
                            \/ t \div 24 > ap[1][k][2][1] \div 24)
                        => ~IsInAssigneePeriod(t, ap)

\* the worker passed the item on and it was closed within four hours the
\* same day: the closure after the end of their interval is their doneAt
C28_Witness ==
    /\ FilteredComplexRun
    /\ result.done_at # None
    /\ LET periods == GetAssigneePeriods(histories, assignee_account_id) IN
       /\ periods # <<>>
       /\ \A k \in 1..Len(periods) :
             periods[k][2] # None /\ periods[k][2][1] < result.done_at[1]
       /\ IsInAssigneePeriod(result.done_at[1], Some(periods))
       /\ ~IsInAssigneePeriod(result.done_at[1] + 1, Some(periods))

\* the intervals of the run: none without a worker, or for a worker with no
\* interval of their own
RunIntervals == WorkerPeriods(histories, assignee_account_id)[2]

IsWontDo(e) ==
    e.item.field = "resolution" /\ Lower(e.item.toString) \in {"won't do", "wont do"}

\* a resolution event that counts: non-empty, not "None", and a "Won't Do"
\* of a filtered run only when the worker set it
IsResolved(e) ==
    /\ e.item.field = "resolution"
    /\ e.item.toString # "" /\ Lower(e.item.toString) # "none"
    /\ (IsWontDo(e) /\ Truthy(assignee_account_id)) => e.author = assignee_account_id

\* the events of a kind after the chosen start and inside the intervals
CompletionTimesOf(Kind(_), start) ==
    {ChronoEvents[k].created_at : k \in {j \in 1..Len(ChronoEvents) :
        /\ Kind(ChronoEvents[j])
        /\ ChronoEvents[j].created_at > start
        /\ IsInAssigneePeriod(ChronoEvents[j].created_at, RunIntervals)}}

\* the run went down the first-to-last path and chose a start
FirstToLastRun ==
    /\ strategy = "complex"
    /\ ~is_qa
    /\ ~Reopened
    /\ result.in_progress_at # None

\* C29 (first completion): in the complex first-to-last path doneAt is the
\* earliest transition into a done status strictly after the chosen start
\* and inside the worker's intervals; a resolution event (non-empty, not
\* "None") is doneAt only when there is no such transition, and then the
\* earliest one; an event outside the worker's intervals is never doneAt.
C29_FirstCompletion ==
    FirstToLastRun =>
        LET start == result.in_progress_at[1]
            by_status == CompletionTimesOf(IsClosure, start)
            by_resolution == CompletionTimesOf(IsResolved, start)
        IN /\ result.done_at =
                 IF by_status # {} THEN Some(SetMin(by_status))
                 ELSE IF by_resolution # {} THEN Some(SetMin(by_resolution))
                 ELSE None
           /\ result.done_at # None =>
                 IsInAssigneePeriod(result.done_at[1], RunIntervals)

\* the worker's item was resolved and closed later: doneAt is the closure,
\* not the earlier resolution
C29_Witness ==
    /\ FirstToLastRun
    /\ Truthy(assignee_account_id)
    /\ RunIntervals # None
    /\ result.done_at # None
    /\ CompletionTimesOf(IsClosure, result.in_progress_at[1]) # {}
    /\ \E t \in CompletionTimesOf(IsResolved, result.in_progress_at[1]) :
          t < result.done_at[1]

\* a completion at t other than a "Won't Do" set by somebody else
CompletedAt(t) ==
    \E k \in 1..Len(ChronoEvents) :
        /\ ChronoEvents[k].created_at = t
        /\ \/ IsClosure(ChronoEvents[k])
           \/ /\ ChronoEvents[k].item.field = "resolution"
              /\ ChronoEvents[k].item.toString # ""
              /\ Lower(ChronoEvents[k].item.toString) # "none"
              /\ IsWontDo(ChronoEvents[k]) => ChronoEvents[k].author = assignee_account_id

\* C30 ("Won't Do"): a resolution event whose toString is "Won't Do" counts
\* as a completion only if the event's author equals the target worker; a
\* "Won't Do" set by anyone else is never used as doneAt.
C30_WontDoByWorker ==
    (Ran /\ result.done_at # None) => CompletedAt(result.done_at[1])

\* C30 as the code has it: the above when a target worker is given; without
\* one a "Won't Do" counts whoever set it.
C30_WontDoByWorkerAmended ==
    (Ran /\ Truthy(assignee_account_id) /\ result.done_at # None)
        => CompletedAt(result.done_at[1])

\* somebody else set "Won't Do" and the worker did so later: doneAt is the
\* worker's
C30_Witness ==
    /\ FirstToLastRun
    /\ Truthy(assignee_account_id)
    /\ result.done_at # None
    /\ \E k \in 1..Len(ChronoEvents) :
          /\ IsWontDo(ChronoEvents[k])
          /\ ChronoEvents[k].author = assignee_account_id
          /\ ChronoEvents[k].created_at = result.done_at[1]
    /\ \E k \in 1..Len(ChronoEvents) :
          /\ IsWontDo(ChronoEvents[k])
          /\ ChronoEvents[k].author # assignee_account_id
          /\ ChronoEvents[k].created_at > result.in_progress_at[1]
          /\ ChronoEvents[k].created_at < result.done_at[1]
          /\ IsInAssigneePeriod(ChronoEvents[k].created_at, RunIntervals)

\* the next status change after event k, 0 when there is none
NextStatusChange(ev, k) ==
    LET later == {j \in (k + 1)..Len(ev) : ev[j].item.field = "status"} IN
    IF later = {} THEN 0 ELSE SetMin(later)

\* the transitions into in-progress whose next status change is not into a
\* non-work state
StartsNotLeadingToNonWork(ev) ==
    {k \in 1..Len(ev) :
        /\ IsStart(ev[k])
        /\ LET j == NextStatusChange(ev, k) IN
           j = 0 \/ Lower(ev[j].item.toString) \notin non_work_states}

\* C31 (global start): in the complex first-to-last path the global start
\* is the earliest in-progress transition that does not lead to a non-work
\* state, where a transition leads to a non-work state exactly when the
\* next status change after it in chronological order is into one of
\* {on hold, waiting, paused, stopped, cancelled}; a following change into
\* another in-progress status does not veto it.
C31_GlobalStart ==
    (strategy = "complex" /\ ~is_qa /\ ~Truthy(assignee_account_id) /\ ~Reopened) =>
        LET ev == ChronoEvents
            starts == StartsNotLeadingToNonWork(ev)
        IN starts # {} =>
              result.in_progress_at = Some(SetMin({ev[k].created_at : k \in starts}))

\* the QA start the run recognised: <<>> or <<time, start status>>
QAStart == FindQAStartTime(histories, is_qa, assignee_account_id)

\* C32 (QA authorship): with isQA set and a worker given, every QA start
\* that is recognised is the timestamp of a history entry authored by the
\* target worker; an assignee event that makes the worker assignee while
\* the status is Acceptance but is authored by someone else does not start
\* the QA cycle.
C32_QAStartAuthored ==
    (Ran /\ is_qa /\ Truthy(assignee_account_id) /\ QAStart # None) =>
        /\ result.in_progress_at = Some(QAStart[1])
        /\ \E i \in 1..Len(histories) :
              /\ histories[i].author = assignee_account_id
              /\ ParseJiraDatetime(histories[i].created) = Some(QAStart[1])

\* the status before event k: the target of the last status change
TrackedStatus(ev, k) ==
    LET S == {j \in 1..(k - 1) : ev[j].item.field = "status"} IN
    IF S = {} THEN NoneStr ELSE Lower(ev[CHOOSE j \in S : \A m \in S : m <= j].item.toString)

\* the status at event k: the target of the last status change before it
\* or, when there is none, the source of the next one
StatusWhen(ev, k) ==
    LET later == {j \in (k + 1)..Len(ev) : ev[j].item.field = "status"} IN
    IF TrackedStatus(ev, k) # NoneStr \/ later = {} THEN TrackedStatus(ev, k)
    ELSE Lower(ev[SetMin(later)].item.fromString)

\* w was made assignee at event j and not taken off the item before event k
AssigneeSince(ev, j, k, w) ==
    /\ ev[j].item.field = "assignee" /\ ev[j].item.to = w
    /\ \A m \in (j + 1)..(k - 1) :
          ~(ev[m].item.field = "assignee" /\ ev[m].item.from = w /\ ev[m].item.to # w)

\* the three patterns of a QA start
OutOfBacklog(ev, k, w) ==
    ev[k].item.field = "status" /\ Lower(ev[k].item.fromString) = "backlog" /\ ev[k].author = w

AssignedOnAcceptance(ev, k, w) ==
    ev[k].item.field = "assignee" /\ ev[k].item.to = w /\ TrackedStatus(ev, k) = "acceptance"

ReviewToAcceptance(ev, k, w) ==
    /\ ev[k].item.field = "status" /\ ev[k].author = w
    /\ Lower(ev[k].item.fromString) = "in review"
    /\ Lower(ev[k].item.toString) = "acceptance"
    /\ \E j \in 1..(k - 1) :
          AssigneeSince(ev, j, k, w) /\ StatusWhen(ev, j) = "in review"

\* the third pattern as the code has it: the worker, assignee since any
\* earlier event, authors a transition into acceptance from any status
IntoAcceptanceAsAssignee(ev, k, w) ==
    /\ ev[k].item.field = "status" /\ ev[k].author = w
    /\ Lower(ev[k].item.toString) = "acceptance"
    /\ \E j \in 1..(k - 1) : AssigneeSince(ev, j, k, w)

\* the time of the earliest event of a set of matches
EarliestMatch(ev, M) == IF M = {} THEN None ELSE Some(ev[SetMin(M)].created_at)

QAStartTime == IF QAStart = None THEN None ELSE Some(QAStart[1])

LeavesStartStatus(ev) ==
    {k \in 1..Len(ev) :
        /\ ev[k].item.field = "status"
        /\ ev[k].created_at > QAStart[1]
        /\ Lower(ev[k].item.fromString) = QAStart[2]
        /\ Lower(ev[k].item.toString) # QAStart[2]}

\* C34 (QA end): when a QA start is matched, inProgressAt is the matched
\* event's time and doneAt is the time of the first status event strictly
\* after the start that leaves the start status (fromString = start
\* status, toString different); if there is none, doneAt and seconds are
\* nil while inProgressAt stays set.
C34_QAEnd ==
    (Ran /\ QAStart # None) =>
        LET leaves == LeavesStartStatus(ChronoEvents) IN
        /\ result.in_progress_at = Some(QAStart[1])
        /\ IF leaves = {}
           THEN result.done_at = None /\ result.seconds = None
           ELSE result.done_at = Some(ChronoEvents[SetMin(leaves)].created_at)

\* the QA worker took the item on acceptance; a status change that does not
\* leave acceptance came next and the one that leaves it later: doneAt is
\* the later one
C34_Witness ==
    /\ Ran /\ QAStart # None
    /\ QAStart[2] = "acceptance"
    /\ result.in_progress_at = Some(QAStart[1])
    /\ result.done_at # None
    /\ \E k \in 1..Len(ChronoEvents) :
          /\ ChronoEvents[k].item.field = "status"
          /\ ChronoEvents[k].created_at > QAStart[1]
          /\ ChronoEvents[k].created_at < result.done_at[1]
          /\ Lower(ChronoEvents[k].item.fromString) # "acceptance"

\* some status event goes from a done status to an in-progress status
ReopeningTransition ==
    \E k \in 1..Len(ChronoEvents) :
        /\ ChronoEvents[k].item.field = "status"
        /\ Lower(ChronoEvents[k].item.fromString) \in done_lower
        /\ Lower(ChronoEvents[k].item.toString) \in in_progress_lower

\* C35 (reopening detection): reopening is detected, and the multi-cycle
\* path chosen, if and only if some status event of the history has its
\* from status in the done set and its to status in the in-progress set.
C35_ReopeningDetected ==
    Ran =>
        /\ HasReopening(histories) <=> ReopeningTransition
        /\ ReopeningTransition =>
              result = IF strategy = "simple"
                       THEN SimpleCalculateWithCycles(histories, ExcludeLower(exclude_statuses), Key)
                       ELSE ComplexCalculateWithCycles(histories, ExcludeLower(exclude_statuses), Key,
                                                       RunIntervals)

\* the windows the accumulators are asked about
WindowHours == 1..5

\* toString of the last item of field f among the events of ev with
\* w0 <= time <= t; NoneStr when there is none
LastInWindow(ev, f, w0, t) ==
    LET idx == {i \in 1..Len(ev) :
                   ev[i].item.field = f /\ w0 <= ev[i].created_at /\ ev[i].created_at <= t}
    IN IF idx = {} THEN NoneStr
       ELSE ev[CHOOSE i \in idx : \A j \in idx : j <= i].item.toString

\* the hours of the window during which the flag, going by the Flagged
\* events inside the window, is set
ImpedimentHours(ev, w0, w1) ==
    {t \in w0..(w1 - 1) : Lower(LastInWindow(ev, "Flagged", w0, t)) = "impediment"}

\* C36 (impediment accumulator): for the window [W0, W1] only Flagged
\* events with W0 <= time <= W1 are used: an Impediment flag raised at s
\* inside the window contributes (c - s) when cleared at c inside the
\* window and (W1 - s) when still set at W1; a flag raised before W0
\* contributes nothing, even if it is still set inside the window.
C36_ImpedimentTime ==
    Ran =>
        LET ev == ChronoEvents IN
        \A w0 \in WindowHours : \A w1 \in WindowHours :
            w0 <= w1 =>
                CalculateImpedimentTime(histories, w0, w1)
                    = Cardinality(ImpedimentHours(ev, w0, w1)) * SecondsPerHour

\* C37 (clipping): for every history and every window [W0, W1] with
\* W0 <= W1 the excluded time, the impediment time and their overlap are
\* each between 0 and W1 - W0, and the overlap exceeds neither the excluded
\* time nor the impediment time.
C37_ClippedToWindow ==
    Ran =>
        \A w0 \in WindowHours : \A w1 \in WindowHours :
            w0 <= w1 =>
                LET excl == ExcludeLower(exclude_statuses)
                    excluded == CalculateExcludedTime(histories, excl, w0, w1)
                    impediment == CalculateImpedimentTime(histories, w0, w1)
                    overlap == CalculateExcludedImpedimentOverlap(histories, excl, w0, w1)
                    window == TotalSeconds(w0, w1)
                IN /\ 0 <= excluded /\ excluded <= window
                   /\ 0 <= impediment /\ impediment <= window
                   /\ 0 <= overlap /\ overlap <= window
                   /\ overlap <= excluded /\ overlap <= impediment

\* the number of seconds a 429 response asks for: its Retry-After header
\* when that holds a number; an absent or empty header, or one that holds no
\* number (an HTTP date), gives none
SecondsAsked(r) ==
    CASE r.retry_after = Some("0") -> Some(0)
      [] r.retry_after = Some("3") -> Some(3)
      [] r.retry_after = Some("-1") -> Some(0 - 1)
      [] OTHER -> None

RECURSIVE WaitBeforeRetry(_, _)
\* the wait that the claim puts before the k-th retry of call c: what the
\* k-th response asks for, else the current delay, which is initial_delay
\* at first and twice the preceding wait afterwards
WaitBeforeRetry(c, k) ==
    LET asked == SecondsAsked(c.received[k])
    IN IF asked # None THEN asked[1]
       ELSE IF k = 1 THEN c.initial_delay
       ELSE 2 * WaitBeforeRetry(c, k - 1)

AllRateLimited(rs) == \A i \in 1..Len(rs) : rs[i].status_code = 429

RetryContract(c) ==
    \* at most max_retries + 1 calls, and none after a response that is not 429
    /\ c.calls <= c.max_retries + 1
    /\ \A i \in 1..(Len(c.received) - 1) : c.received[i].status_code = 429
    /\ Len(c.received) \in {c.calls - 1, c.calls}
    \* the first response that is not 429 is returned at once
    /\ (Len(c.received) > 0 /\ c.received[Len(c.received)].status_code # 429)
           => (c.state = "returned" /\ c.resp = Some(c.received[Len(c.received)])
               /\ c.calls = Len(c.received))
    /\ c.state = "returned" => c.received[Len(c.received)].status_code # 429
    \* max_retries + 1 responses, all of them 429: an HTTP error
    /\ (Len(c.received) = c.max_retries + 1 /\ AllRateLimited(c.received))
           => (c.state = "raised" /\ c.error = "HTTPError")
    /\ (c.state = "raised" /\ c.error = "HTTPError")
           => (Len(c.received) = c.max_retries + 1 /\ AllRateLimited(c.received))
    \* every call but the first is a retry and has its wait before it
    /\ c.attempt = (IF c.state = "running" THEN c.calls ELSE c.calls - 1)
    /\ Len(c.slept) >= c.attempt
    /\ \A k \in 1..c.attempt :
           /\ c.slept[k] = WaitBeforeRetry(c, k)
           /\ c.delay = 2 * c.slept[c.attempt]

C39_InfoAgrees ==
    Ran =>
        LET info == GetStrategyInfo(histories, assignee_account_id)
        IN /\ info.strategy = "ComplexCycleTimeStrategy" <=> strategy = "complex"
           /\ info.reasons = <<"simple linear process">>
                  <=> info.strategy = "SimpleCycleTimeStrategy"

====
